---- MODULE Spec2Model ----
(***************************************************************************)
(* Permuto: JSON template substitution.                                    *)
(*                                                                         *)
(* The repository holds two forward engines behind permuto::apply:         *)
(*   - src/src/permuto.cpp (namespace detail), which re-processes resolved *)
(*     strings, guards paths with ActivePathGuard and passes the depth by  *)
(*     value;                                                              *)
(*   - src/src/api.cpp + template_processor.cpp (class TemplateProcessor), *)
(*     which knows the Remove policy and keeps its depth counter and       *)
(*     CycleDetector in a thread-local ProcessingContext.                  *)
(* Both are modelled as one call-stack machine: a frame per active C++     *)
(* call, one action per function, a value or an exception in flight.       *)
(*                                                                         *)
(* Strings are sequences of one-character strings, so that marker          *)
(* matching, path splitting and stringification are computed, not assumed. *)
(***************************************************************************)
EXTENDS Integers, Sequences, FiniteSets, TLC

(***************************************************************************)
(* std::string helpers (0-based positions, npos = -1)                      *)
(***************************************************************************)
npos == -1

Min(a, b) == IF a < b THEN a ELSE b

\* std::string::substr(pos, len)
substr(s, pos, len) == SubSeq(s, pos + 1, Min(pos + len, Len(s)))

\* std::string::substr(pos)
substr_from(s, pos) == SubSeq(s, pos + 1, Len(s))

\* does pat occur in s at 0-based position i
occurs_at(s, pat, i) ==
    /\ i >= 0
    /\ i + Len(pat) <= Len(s)
    /\ SubSeq(s, i + 1, i + Len(pat)) = pat

\* std::string::find(pat, from)
find(s, pat, from) ==
    LET hits == {i \in from..Len(s) : occurs_at(s, pat, i)}
    IN IF hits = {} THEN npos ELSE CHOOSE i \in hits : \A j \in hits : i <= j

DigitChars == <<"0", "1", "2", "3", "4", "5", "6", "7", "8", "9">>

is_digit(c) == \E i \in 1..10 : DigitChars[i] = c

digit_value(c) == (CHOOSE i \in 1..10 : DigitChars[i] = c) - 1

RECURSIVE digits_value(_)
digits_value(s) ==
    IF s = <<>> THEN 0
    ELSE 10 * digits_value(SubSeq(s, 1, Len(s) - 1)) + digit_value(s[Len(s)])

\* std::to_string / json::dump of a non-negative integer
RECURSIVE to_string(_)
to_string(n) ==
    IF n < 10 THEN <<DigitChars[n + 1]>>
    ELSE to_string(n \div 10) \o <<DigitChars[(n % 10) + 1]>>

(***************************************************************************)
(* nlohmann::json values                                                   *)
(***************************************************************************)
Null == [t |-> "null"]
Bool(b) == [t |-> "boolean", b |-> b]
Num(n) == [t |-> "number", n |-> n]
Str(s) == [t |-> "string", s |-> s]
Arr(a) == [t |-> "array", a |-> a]
\* an object is its members in key order (std::map iteration order)
Obj(o) == [t |-> "object", o |-> o]
Member(k, v) == [k |-> k, v |-> v]

is_string(j) == j.t = "string"
is_object(j) == j.t = "object"
is_array(j) == j.t = "array"

\* json::find(key) / json::contains(key)
has_key(j, key) == \E i \in 1..Len(j.o) : j.o[i].k = key
get_key(j, key) == j.o[CHOOSE i \in 1..Len(j.o) : j.o[i].k = key].v

\* json::dump() in compact form
RECURSIVE dump(_)
RECURSIVE dump_items(_, _)
RECURSIVE dump_members(_, _)
dump(j) ==
    CASE j.t = "null" -> <<"n", "u", "l", "l">>
      [] j.t = "boolean" -> IF j.b THEN <<"t", "r", "u", "e">>
                            ELSE <<"f", "a", "l", "s", "e">>
      [] j.t = "number" -> to_string(j.n)
      [] j.t = "string" -> <<"\"">> \o j.s \o <<"\"">>
      [] j.t = "array" -> <<"[">> \o dump_items(j.a, 1) \o <<"]">>
      [] j.t = "object" -> <<"{">> \o dump_members(j.o, 1) \o <<"}">>
dump_items(a, i) ==
    IF i > Len(a) THEN <<>>
    ELSE (IF i > 1 THEN <<",">> ELSE <<>>) \o dump(a[i]) \o dump_items(a, i + 1)
dump_members(o, i) ==
    IF i > Len(o) THEN <<>>
    ELSE (IF i > 1 THEN <<",">> ELSE <<>>)
         \o <<"\"">> \o o[i].k \o <<"\"", ":">> \o dump(o[i].v)
         \o dump_members(o, i + 1)

\* detail::stringify_json
stringify_json(value) ==
    IF is_string(value) THEN value.s ELSE dump(value)

\* TemplateProcessor::json_to_string
json_to_string(value) ==
    IF is_string(value) THEN value.s
    ELSE IF value.t = "number" THEN to_string(value.n)
    ELSE dump(value)

(***************************************************************************)
(* JSON Pointer handling                                                   *)
(***************************************************************************)
\* the tokens between the '/' of s, empty ones included
RECURSIVE split_tokens(_, _)
split_tokens(s, cur) ==
    IF s = <<>> THEN <<cur>>
    ELSE IF s[1] = "/" THEN <<cur>> \o split_tokens(Tail(s), <<>>)
    ELSE split_tokens(Tail(s), Append(cur, s[1]))

\* std::getline(ss, token, '/') until it fails: no token after a final '/'
getline_tokens(s) ==
    LET all == split_tokens(s, <<>>)
    IN IF all[Len(all)] = <<>> THEN SubSeq(all, 1, Len(all) - 1) ELSE all

\* JsonPointer::unescape_token
RECURSIVE unescape_token(_)
unescape_token(token) ==
    IF token = <<>> THEN <<>>
    ELSE IF token[1] = "~" /\ Len(token) > 1 /\ token[2] = "0"
         THEN <<"~">> \o unescape_token(SubSeq(token, 3, Len(token)))
    ELSE IF token[1] = "~" /\ Len(token) > 1 /\ token[2] = "1"
         THEN <<"/">> \o unescape_token(SubSeq(token, 3, Len(token)))
    ELSE <<token[1]>> \o unescape_token(Tail(token))

\* JsonPointerUtils::escape_segment
RECURSIVE escape_segment(_)
escape_segment(segment) ==
    IF segment = <<>> THEN <<>>
    ELSE (IF segment[1] = "~" THEN <<"~", "0">>
          ELSE IF segment[1] = "/" THEN <<"~", "1">>
          ELSE <<segment[1]>>) \o escape_segment(Tail(segment))

\* JsonPointerUtils::create_pointer
RECURSIVE join_segments(_, _)
join_segments(segments, i) ==
    IF i > Len(segments) THEN <<>>
    ELSE (IF i > 1 THEN <<"/">> ELSE <<>>) \o escape_segment(segments[i])
         \o join_segments(segments, i + 1)
create_pointer(segments) ==
    IF segments = <<>> THEN <<>> ELSE <<"/">> \o join_segments(segments, 1)

\* JsonPointerUtils::dot_to_pointer: split at '.', empty segments dropped
RECURSIVE dot_segments(_, _)
dot_segments(s, cur) ==
    IF s = <<>> THEN (IF cur = <<>> THEN <<>> ELSE <<cur>>)
    ELSE IF s[1] = "." THEN (IF cur = <<>> THEN <<>> ELSE <<cur>>) \o dot_segments(Tail(s), <<>>)
    ELSE dot_segments(Tail(s), Append(cur, s[1]))
dot_to_pointer(dot_path) ==
    IF dot_path = <<>> THEN <<>> ELSE create_pointer(dot_segments(dot_path, <<>>))

\* nlohmann::json_pointer: every '~' of a token is followed by '0' or '1'
escapes_ok(token) ==
    \A i \in 1..Len(token) :
        token[i] = "~" => (i < Len(token) /\ token[i + 1] \in {"0", "1"})

\* nlohmann::json_pointer(path) parses without parse_error
nl_pointer_ok(path) ==
    path = <<>> \/ (path[1] = "/" /\ \A i \in 1..Len(split_tokens(Tail(path), <<>>)) :
                                        escapes_ok(split_tokens(Tail(path), <<>>)[i]))

\* nlohmann::json_pointer::array_index accepts the token
nl_index_ok(token) ==
    /\ token # <<>>
    /\ \A i \in 1..Len(token) : is_digit(token[i])
    /\ (Len(token) > 1 => token[1] # "0")

NotFound == [found |-> FALSE]
Found(v) == [found |-> TRUE, v |-> v]

\* json::at(json_pointer): walk the tokens, any failure is an exception
RECURSIVE nl_at(_, _, _)
nl_at(j, tokens, i) ==
    IF i > Len(tokens) THEN Found(j)
    ELSE LET tok == unescape_token(tokens[i]) IN
         IF is_object(j)
         THEN IF has_key(j, tok) THEN nl_at(get_key(j, tok), tokens, i + 1) ELSE NotFound
         ELSE IF is_array(j)
         THEN IF nl_index_ok(tok) /\ digits_value(tok) < Len(j.a)
              THEN nl_at(j.a[digits_value(tok) + 1], tokens, i + 1)
              ELSE NotFound
         ELSE NotFound

\* detail::resolve_path without the policy: the optional it computes
detail_lookup(context, path) ==
    IF path = <<>> THEN Found(context)
    ELSE IF path[1] # "/" THEN NotFound
    ELSE IF ~nl_pointer_ok(path) THEN NotFound
    ELSE nl_at(context, split_tokens(Tail(path), <<>>), 1)

\* std::stoull(token): optional sign, then the longest run of digits;
\* [ok |-> FALSE] stands for std::invalid_argument
RECURSIVE digit_prefix(_)
digit_prefix(s) ==
    IF s = <<>> \/ ~is_digit(s[1]) THEN <<>> ELSE <<s[1]>> \o digit_prefix(Tail(s))
RECURSIVE skip_spaces(_)
skip_spaces(s) == IF s # <<>> /\ s[1] = " " THEN skip_spaces(Tail(s)) ELSE s
stoull(token) ==
    LET t0 == skip_spaces(token)
        neg == t0 # <<>> /\ t0[1] = "-"
        t1 == IF t0 # <<>> /\ t0[1] \in {"+", "-"} THEN Tail(t0) ELSE t0
        ds == digit_prefix(t1)
    IN IF ds = <<>> THEN [ok |-> FALSE]
       ELSE [ok |-> TRUE, neg |-> neg /\ digits_value(ds) > 0, n |-> digits_value(ds)]

\* JsonPointer::parse_path; the constructor throws for a path without '/'
parse_path_throws(path) == path # <<>> /\ path[1] # "/"
parse_path(path) ==
    IF path = <<>> THEN <<>>
    ELSE LET raw == getline_tokens(Tail(path))
         IN [i \in 1..Len(raw) |-> unescape_token(raw[i])]

\* JsonPointer::resolve
RECURSIVE JsonPointer_resolve(_, _, _)
JsonPointer_resolve(current, tokens, i) ==
    IF i > Len(tokens) THEN Found(current)
    ELSE IF is_object(current)
    THEN IF has_key(current, tokens[i])
         THEN JsonPointer_resolve(get_key(current, tokens[i]), tokens, i + 1)
         ELSE NotFound
    ELSE IF is_array(current)
    THEN LET idx == stoull(tokens[i]) IN
         \* a negated value wraps to a huge size_t and is out of range
         IF idx.ok /\ ~idx.neg /\ idx.n < Len(current.a)
         THEN JsonPointer_resolve(current.a[idx.n + 1], tokens, i + 1)
         ELSE NotFound
    ELSE NotFound

(***************************************************************************)
(* PlaceholderParser of permuto.cpp (constructed from Options)             *)
(***************************************************************************)
\* JsonPointerUtils::is_valid_pointer, as ContextPath::validate uses it
is_valid_pointer(pointer) ==
    pointer = <<>> \/ (pointer[1] = "/" /\ nl_pointer_ok(pointer))

\* PlaceholderParser::is_exact_match_placeholder
is_exact_match_placeholder(template_str, sm, em) ==
    LET templateLen == Len(template_str)
        min_placeholder_length == Len(sm) + Len(em) + 1
        starts_with_marker == templateLen >= min_placeholder_length
                              /\ occurs_at(template_str, sm, 0)
        ends_with_marker == templateLen >= min_placeholder_length
                            /\ find(template_str, em, templateLen - Len(em))
                               = templateLen - Len(em)
        next_start_pos == find(template_str, sm, Len(sm))
    IN /\ starts_with_marker
       /\ ends_with_marker
       /\ (next_start_pos = npos \/ next_start_pos >= templateLen - Len(em))

PlaceholderInfo(path, full_placeholder, start_pos, end_pos, is_valid) ==
    [path |-> path, full_placeholder |-> full_placeholder,
     start_pos |-> start_pos, end_pos |-> end_pos, is_valid |-> is_valid]

\* PlaceholderParser::extract_placeholder_info
extract_placeholder_info(template_str, sm, em) ==
    IF ~is_exact_match_placeholder(template_str, sm, em)
    THEN PlaceholderInfo(<<>>, <<>>, 0, 0, FALSE)
    ELSE LET templateLen == Len(template_str)
             path_str == substr(template_str, Len(sm), templateLen - Len(sm) - Len(em))
             pointer_path == IF path_str # <<>> /\ path_str[1] = "/" THEN path_str
                             ELSE dot_to_pointer(path_str)
         IN IF path_str = <<>>
            THEN PlaceholderInfo(<<>>, template_str, 0, templateLen, FALSE)
            ELSE PlaceholderInfo(pointer_path, template_str, 0, templateLen,
                                 is_valid_pointer(pointer_path))

\* PlaceholderParser::find_all_placeholders, from current_pos on
RECURSIVE find_all_placeholders_from(_, _, _, _)
find_all_placeholders_from(template_str, sm, em, current_pos) ==
    IF current_pos >= Len(template_str) THEN <<>>
    ELSE LET start_pos == find(template_str, sm, current_pos) IN
         IF start_pos = npos THEN <<>>
         ELSE LET end_pos == find(template_str, em, start_pos + Len(sm)) IN
              IF end_pos = npos THEN <<>>
              ELSE LET path_str == substr(template_str, start_pos + Len(sm),
                                          end_pos - (start_pos + Len(sm)))
                       full_placeholder == substr(template_str, start_pos,
                                                  end_pos + Len(em) - start_pos)
                       pointer_path == IF path_str # <<>> /\ path_str[1] = "/"
                                       THEN path_str ELSE dot_to_pointer(path_str)
                       is_valid == path_str # <<>> /\ pointer_path # <<>>
                   IN <<PlaceholderInfo(pointer_path, full_placeholder, start_pos,
                                        end_pos + Len(em), is_valid)>>
                      \o find_all_placeholders_from(template_str, sm, em,
                                                    end_pos + Len(em))

find_all_placeholders(template_str, sm, em) ==
    find_all_placeholders_from(template_str, sm, em, 0)

(***************************************************************************)
(* PlaceholderParser of placeholder_parser.cpp (constructed from markers)  *)
(***************************************************************************)
\* PlaceholderParser::PlaceholderParser throws std::invalid_argument
PlaceholderParser_throws(start_marker, end_marker) ==
    start_marker = <<>> \/ end_marker = <<>> \/ start_marker = end_marker

\* PlaceholderParser::is_valid_path
is_valid_path(path) == path = <<>> \/ path[1] = "/"

NoPath == [has_value |-> FALSE]
SomePath(path) == [has_value |-> TRUE, path |-> path]

\* PlaceholderParser::extract_exact_placeholder
extract_exact_placeholder(text, sm, em) ==
    IF Len(text) < Len(sm) + Len(em) THEN NoPath
    ELSE IF substr(text, 0, Len(sm)) # sm \/ substr_from(text, Len(text) - Len(em)) # em
    THEN NoPath
    ELSE LET path == substr(text, Len(sm), Len(text) - Len(sm) - Len(em))
         IN IF is_valid_path(path) THEN SomePath(path) ELSE NoPath

Placeholder(path, start_pos, end_pos, is_exact_match) ==
    [path |-> path, start_pos |-> start_pos, end_pos |-> end_pos,
     is_exact_match |-> is_exact_match]

\* PlaceholderParser::find_placeholders, from pos on
RECURSIVE find_placeholders_from(_, _, _, _)
find_placeholders_from(text, sm, em, pos) ==
    IF pos >= Len(text) THEN <<>>
    ELSE LET start == find(text, sm, pos) IN
         IF start = npos THEN <<>>
         ELSE LET path_start == start + Len(sm)
                  end == find(text, em, path_start)
              IN IF end = npos
                 THEN find_placeholders_from(text, sm, em, start + 1)
                 ELSE LET path == substr(text, path_start, end - path_start)
                          end_pos == end + Len(em)
                      IN (IF is_valid_path(path)
                          THEN <<Placeholder(path, start, end_pos,
                                             start = 0 /\ end_pos = Len(text))>>
                          ELSE <<>>)
                         \o find_placeholders_from(text, sm, em, end_pos)

find_placeholders(text, sm, em) == find_placeholders_from(text, sm, em, 0)

(***************************************************************************)
(* Options and exceptions                                                  *)
(***************************************************************************)
Options(sm, em, interp, missing, depth) ==
    [start_marker |-> sm, end_marker |-> em, enable_interpolation |-> interp,
     missing_key_behavior |-> missing, max_recursion_depth |-> depth]

\* Options::validate without its test for identical markers
Options_validate_throws_identical_unchecked(options) ==
    \/ options.start_marker = <<>>
    \/ options.end_marker = <<>>

\* Options::validate of include/permuto/permuto.hpp throws std::invalid_argument
Options_validate_throws(options) ==
    \/ options.start_marker = <<>>
    \/ options.end_marker = <<>>
    \/ options.start_marker = options.end_marker

\* Options::validate of the Options that TemplateProcessor is built from
\* (start_marker, end_marker, enable_interpolation, missing_key_behavior,
\* max_recursion_depth); its definition is not among the sources
TemplateProcessor_Options_validate_throws(options) ==
    \/ options.start_marker = <<>>
    \/ options.end_marker = <<>>
    \/ options.start_marker = options.end_marker
    \/ options.max_recursion_depth < 1
    \/ (options.missing_key_behavior = "Remove" /\ options.enable_interpolation)

PermutoRecursionDepthException(current_depth, max_depth) ==
    [type |-> "RecursionLimit", current |-> current_depth, limit |-> max_depth]
\* RecursionLimitException is constructed from the current depth alone
RecursionLimitException(current_depth) ==
    [type |-> "RecursionLimit", current |-> current_depth]
CycleException(path) == [type |-> "Cycle", path |-> path]
MissingKeyException(path) == [type |-> "MissingKey", path |-> path]
ConfigurationError == [type |-> "Configuration"]

(***************************************************************************)
(* Objects as std::map: members kept in key order                          *)
(***************************************************************************)
\* the characters of keys, in the order of their codes
CharOrder ==
    <<" ", "#", "$", "-", ".", "/", "0", "1", "2", "3", "4", "5", "6", "7", "8", "9",
      "=", "A", "H", "a", "b", "c", "d", "e", "f", "g", "i", "k", "l", "m", "n", "o",
      "p", "q", "r", "s", "t", "u", "v", "x", "y", "z", "{", "}", "~">>

char_code(c) == CHOOSE i \in 1..Len(CharOrder) : CharOrder[i] = c

\* std::less<std::string>
RECURSIVE string_less(_, _)
string_less(a, b) ==
    IF b = <<>> THEN FALSE
    ELSE IF a = <<>> THEN TRUE
    ELSE IF a[1] = b[1] THEN string_less(Tail(a), Tail(b))
    ELSE char_code(a[1]) < char_code(b[1])

\* json::operator[](key) = value on the members o of an object
RECURSIVE set_member(_, _, _)
set_member(o, key, value) ==
    IF o = <<>> THEN <<Member(key, value)>>
    ELSE IF o[1].k = key THEN <<Member(key, value)>> \o Tail(o)
    ELSE IF string_less(key, o[1].k) THEN <<Member(key, value)>> \o o
    ELSE <<o[1]>> \o set_member(Tail(o), key, value)

(***************************************************************************)
(* permuto.cpp: create_reverse_template and apply_reverse                  *)
(***************************************************************************)
Threw(type) == [throws |-> TRUE, type |-> type]
Gave(v) == [throws |-> FALSE, v |-> v]

\* JsonPointerUtils::unescape_segment
RECURSIVE unescape_segment(_)
unescape_segment(escaped_segment) ==
    IF escaped_segment = <<>> THEN <<>>
    ELSE IF escaped_segment[1] = "~" /\ Len(escaped_segment) > 1
            /\ escaped_segment[2] = "0"
         THEN <<"~">> \o unescape_segment(SubSeq(escaped_segment, 3, Len(escaped_segment)))
    ELSE IF escaped_segment[1] = "~" /\ Len(escaped_segment) > 1
            /\ escaped_segment[2] = "1"
         THEN <<"/">> \o unescape_segment(SubSeq(escaped_segment, 3, Len(escaped_segment)))
    ELSE <<escaped_segment[1]>> \o unescape_segment(Tail(escaped_segment))

\* JsonPointerUtils::parse_segments from position i (0-based) on
RECURSIVE parse_segments_from(_, _, _, _, _)
parse_segments_from(pointer, i, current_segment, escaping, segments) ==
    IF i >= Len(pointer)
    THEN Gave(IF current_segment # <<>> \/ pointer[Len(pointer)] = "/"
              THEN Append(segments, current_segment) ELSE segments)
    ELSE LET c == pointer[i + 1] IN
         IF escaping
         THEN IF c = "0"
              THEN parse_segments_from(pointer, i + 1, Append(current_segment, "~"),
                                       FALSE, segments)
              ELSE IF c = "1"
              THEN parse_segments_from(pointer, i + 1, Append(current_segment, "/"),
                                       FALSE, segments)
              ELSE Threw("std::runtime_error")
         ELSE IF c = "~"
         THEN parse_segments_from(pointer, i + 1, current_segment, TRUE, segments)
         ELSE IF c = "/"
         THEN parse_segments_from(pointer, i + 1, <<>>, FALSE,
                                  Append(segments, current_segment))
         ELSE parse_segments_from(pointer, i + 1, Append(current_segment, c), FALSE,
                                  segments)

parse_segments(pointer) == parse_segments_from(pointer, 1, <<>>, FALSE, <<>>)

\* the loop of detail::insert_pointer_at_context_path from segment i on, at
\* current_node
RECURSIVE insert_at_segment(_, _, _, _)
insert_at_segment(current_node, segments, i, pointer_to_insert) ==
    LET segment == segments[i] IN
    IF i > Len(segments) THEN Gave(current_node)
    ELSE IF i = Len(segments)
    THEN IF has_key(current_node, segment)
         THEN IF ~is_string(get_key(current_node, segment))
                 \/ get_key(current_node, segment) # Str(pointer_to_insert)
              THEN Threw("std::runtime_error")
              ELSE Gave(current_node)
         ELSE Gave(Obj(set_member(current_node.o, segment, Str(pointer_to_insert))))
    ELSE IF has_key(current_node, segment) /\ ~is_object(get_key(current_node, segment))
    THEN Threw("std::runtime_error")
    ELSE LET below == insert_at_segment(
                          IF has_key(current_node, segment)
                          THEN get_key(current_node, segment) ELSE Obj(<<>>),
                          segments, i + 1, pointer_to_insert)
         IN IF below.throws THEN below
            ELSE Gave(Obj(set_member(current_node.o, segment, below.v)))

\* detail::insert_pointer_at_context_path
insert_pointer_at_context_path(reverse_template_node, context_path, pointer_to_insert) ==
    IF context_path = <<>> \/ context_path[1] # "/" THEN Threw("std::runtime_error")
    ELSE LET segments == parse_segments(context_path) IN
         IF segments.throws THEN segments
         ELSE insert_at_segment(reverse_template_node, segments.v, 1, pointer_to_insert)

RECURSIVE build_reverse_template_recursive(_, _, _, _)
RECURSIVE process_template_object(_, _, _, _, _)
RECURSIVE process_template_array(_, _, _, _, _)

\* detail::process_template_string
process_template_string(template_node, current_pointer_str, reverse_template_ref, options) ==
    LET placeholder == extract_placeholder_info(template_node.s, options.start_marker,
                                                options.end_marker)
    IN IF placeholder.is_valid
       THEN insert_pointer_at_context_path(reverse_template_ref, placeholder.path,
                                           current_pointer_str)
       ELSE Gave(reverse_template_ref)

\* detail::process_template_object: the loop from member i on
process_template_object(template_node, i, current_pointer_str, reverse_template_ref, options) ==
    IF i > Len(template_node.o) THEN Gave(reverse_template_ref)
    ELSE LET escaped_key == escape_segment(unescape_segment(template_node.o[i].k)) 
             next_pointer_str == current_pointer_str \o <<"/">> \o escaped_key
             built == build_reverse_template_recursive(template_node.o[i].v,
                          next_pointer_str, reverse_template_ref, options)
         IN IF built.throws THEN built
            ELSE process_template_object(template_node, i + 1, current_pointer_str,
                                         built.v, options)

\* detail::process_template_array: the loop from index i (0-based) on
process_template_array(template_node, i, current_pointer_str, reverse_template_ref, options) ==
    IF i >= Len(template_node.a) THEN Gave(reverse_template_ref)
    ELSE LET next_pointer_str == current_pointer_str \o <<"/">> \o to_string(i)
             built == build_reverse_template_recursive(template_node.a[i + 1],
                          next_pointer_str, reverse_template_ref, options)
         IN IF built.throws THEN built
            ELSE process_template_array(template_node, i + 1, current_pointer_str,
                                        built.v, options)

\* detail::build_reverse_template_recursive
build_reverse_template_recursive(current_template_node, current_result_pointer_str, reverse_template_ref, options) ==
    IF is_object(current_template_node)
    THEN process_template_object(current_template_node, 1, current_result_pointer_str,
                                 reverse_template_ref, options)
    ELSE IF is_array(current_template_node)
    THEN process_template_array(current_template_node, 0, current_result_pointer_str,
                                reverse_template_ref, options)
    ELSE IF is_string(current_template_node)
    THEN process_template_string(current_template_node, current_result_pointer_str,
                                 reverse_template_ref, options)
    ELSE Gave(reverse_template_ref)

\* permuto::create_reverse_template of permuto.cpp without its test of
\* options.enableStringInterpolation
create_reverse_template_interpolation_unchecked(original_template, options) ==
    IF Options_validate_throws(options) THEN Threw("std::invalid_argument")
    ELSE build_reverse_template_recursive(original_template, <<>>, Obj(<<>>), options)

\* permuto::create_reverse_template of permuto.cpp
create_reverse_template(original_template, options) ==
    IF Options_validate_throws(options) THEN Threw("std::invalid_argument")
    ELSE IF options.enable_interpolation THEN Threw("std::logic_error")
    ELSE build_reverse_template_recursive(original_template, <<>>, Obj(<<>>), options)

\* json::empty(): null and containers without elements
json_empty(j) ==
    \/ j.t = "null"
    \/ (is_object(j) /\ j.o = <<>>)
    \/ (is_array(j) /\ j.a = <<>>)

RECURSIVE reconstruct_context_recursive(_, _, _)
RECURSIVE process_reverse_object(_, _, _, _)

\* detail::process_reverse_pointer
process_reverse_pointer(reverse_node, result_json, context_node) ==
    LET pointer_str == reverse_node.s IN
    IF ~nl_pointer_ok(pointer_str) THEN Threw("std::runtime_error")
    ELSE LET looked_up_value ==
                 IF pointer_str = <<>> THEN Found(result_json)
                 ELSE nl_at(result_json, split_tokens(Tail(pointer_str), <<>>), 1)
         IN IF looked_up_value.found THEN Gave(looked_up_value.v)
            ELSE Threw("std::runtime_error")

\* detail::process_reverse_object: the loop from member i on, context_node
\* already an object
process_reverse_object(reverse_node, i, result_json, context_node) ==
    IF i > Len(reverse_node.o) THEN Gave(context_node)
    ELSE LET key == reverse_node.o[i].k
             below == reconstruct_context_recursive(reverse_node.o[i].v, result_json,
                          IF has_key(context_node, key) THEN get_key(context_node, key)
                          ELSE Null)
         IN IF below.throws THEN below
            ELSE process_reverse_object(reverse_node, i + 1, result_json,
                                        Obj(set_member(context_node.o, key, below.v)))

\* detail::reconstruct_context_recursive
reconstruct_context_recursive(current_reverse_node, result_json, current_context_node) ==
    IF is_object(current_reverse_node)
    THEN process_reverse_object(current_reverse_node, 1, result_json,
                                IF is_object(current_context_node)
                                THEN current_context_node ELSE Obj(<<>>))
    ELSE IF is_string(current_reverse_node)
    THEN process_reverse_pointer(current_reverse_node, result_json,
                                 current_context_node)
    ELSE Threw("std::runtime_error")

\* permuto::apply_reverse of permuto.cpp
apply_reverse(reverse_template, result_json) ==
    IF ~is_object(reverse_template)
    THEN IF ~json_empty(reverse_template) THEN Threw("std::runtime_error")
         ELSE Gave(Obj(<<>>))
    ELSE reconstruct_context_recursive(reverse_template, result_json, Obj(<<>>))

(***************************************************************************)
(* reverse_processor.cpp and the reverse functions of api.cpp              *)
(***************************************************************************)
\* the Options that api.cpp's apply_reverse builds its ReverseProcessor from
DefaultOptions == Options(<<"$", "{">>, <<"}">>, FALSE, "Ignore", 64)

\* ReverseProcessor::ReverseProcessor: the exception it throws, if any
ReverseProcessor_throws(options) ==
    \/ PlaceholderParser_throws(options.start_marker, options.end_marker)
    \/ TemplateProcessor_Options_validate_throws(options)
    \/ options.enable_interpolation

PathMapping(context_path, result_path) ==
    [context_path |-> context_path, result_path |-> result_path]

RECURSIVE analyze_template(_, _, _)
RECURSIVE analyze_object(_, _, _, _)
RECURSIVE analyze_array(_, _, _, _)

\* ReverseProcessor::analyze_string: the mappings it appends
analyze_string(str, current_path, options) ==
    LET exact_path == extract_exact_placeholder(str, options.start_marker,
                                                options.end_marker)
    IN IF exact_path.has_value THEN <<PathMapping(exact_path.path, current_path)>>
       ELSE <<>>

\* ReverseProcessor::analyze_object: the mappings appended from member i on
analyze_object(obj, i, current_path, options) ==
    IF i > Len(obj.o) THEN <<>>
    ELSE analyze_template(obj.o[i].v, current_path \o <<"/">> \o obj.o[i].k, options)
         \o analyze_object(obj, i + 1, current_path, options)

\* ReverseProcessor::analyze_array: the mappings appended from index i on
analyze_array(arr, i, current_path, options) ==
    IF i >= Len(arr.a) THEN <<>>
    ELSE analyze_template(arr.a[i + 1], current_path \o <<"/">> \o to_string(i), options)
         \o analyze_array(arr, i + 1, current_path, options)

\* ReverseProcessor::analyze_template
analyze_template(template_json, current_path, options) ==
    IF is_object(template_json) THEN analyze_object(template_json, 1, current_path, options)
    ELSE IF is_array(template_json)
    THEN analyze_array(template_json, 0, current_path, options)
    ELSE IF is_string(template_json)
    THEN analyze_string(template_json.s, current_path, options)
    ELSE <<>>

\* the loop of ReverseProcessor::create_reverse_template from mapping i on
RECURSIVE insert_mappings(_, _, _)
insert_mappings(reverse_template, mappings, i) ==
    IF i > Len(mappings) THEN reverse_template
    ELSE insert_mappings(set_member(reverse_template, mappings[i].result_path,
                                    Str(mappings[i].context_path)),
                         mappings, i + 1)

\* ReverseProcessor::create_reverse_template
ReverseProcessor_create_reverse_template(template_json, options) ==
    Obj(insert_mappings(<<>>, analyze_template(template_json, <<>>, options), 1))

\* permuto::create_reverse_template of api.cpp
api_create_reverse_template(template_json, options) ==
    IF ReverseProcessor_throws(options) THEN Threw("std::invalid_argument")
    ELSE Gave(ReverseProcessor_create_reverse_template(template_json, options))

\* ReverseProcessor::get_at_path
get_at_path(source, path) ==
    IF parse_path_throws(path) THEN NotFound
    ELSE JsonPointer_resolve(source, parse_path(path), 1)

\* ReverseProcessor::path_to_tokens, for a path that starts with '/'
path_to_tokens(path) == parse_path(path)

\* the loop of ReverseProcessor::set_at_path from token i on, at current
RECURSIVE set_at_token(_, _, _, _)
set_at_token(current, tokens, i, value) ==
    LET token == tokens[i]
        here == IF current.t = "null" THEN Obj(<<>>) ELSE current
    IN IF i > Len(tokens) THEN Gave(current)
       ELSE IF i = Len(tokens)
       THEN IF is_object(here) THEN Gave(Obj(set_member(here.o, token, value)))
            ELSE Threw("nlohmann::json::type_error")
       ELSE IF ~is_object(here) THEN Threw("std::runtime_error")
       ELSE LET below == set_at_token(IF has_key(here, token) THEN get_key(here, token)
                                      ELSE Obj(<<>>),
                                      tokens, i + 1, value)
            IN IF below.throws THEN below
               ELSE Gave(Obj(set_member(here.o, token, below.v)))

\* ReverseProcessor::set_at_path
set_at_path(target, path, value) ==
    IF path = <<>> THEN Gave(value)
    ELSE IF path[1] # "/" THEN Threw("std::invalid_argument")
    ELSE set_at_token(target, path_to_tokens(path), 1, value)

\* the loop of ReverseProcessor::apply_reverse over the members of an object,
\* from member i on
RECURSIVE apply_mappings(_, _, _, _)
apply_mappings(reverse_template, i, result_json, context) ==
    IF i > Len(reverse_template.o) THEN Gave(context)
    ELSE IF ~is_string(reverse_template.o[i].v) THEN Threw("nlohmann::json::type_error")
    ELSE LET result_path == reverse_template.o[i].k
             context_path == reverse_template.o[i].v.s
             result_value == get_at_path(result_json, result_path)
         IN IF result_value.found
            THEN LET set == set_at_path(context, context_path, result_value.v)
                 IN IF set.throws THEN set
                    ELSE apply_mappings(reverse_template, i + 1, result_json, set.v)
            ELSE apply_mappings(reverse_template, i + 1, result_json, context)

\* ReverseProcessor::apply_reverse; iterating null or an empty array visits
\* nothing, and key() of any other iterator that is not an object's throws
ReverseProcessor_apply_reverse(reverse_template, result_json) ==
    IF is_object(reverse_template)
    THEN apply_mappings(reverse_template, 1, result_json, Obj(<<>>))
    ELSE IF json_empty(reverse_template) THEN Gave(Obj(<<>>))
    ELSE Threw("nlohmann::json::invalid_iterator")

\* permuto::apply_reverse of api.cpp
api_apply_reverse(reverse_template, result_json) ==
    IF ReverseProcessor_throws(DefaultOptions) THEN Threw("std::invalid_argument")
    ELSE ReverseProcessor_apply_reverse(reverse_template, result_json)

(***************************************************************************)
(* The machine                                                             *)
(***************************************************************************)
VARIABLES
    pc,            \* where the caller is: "idle", "running" (in apply), "done"
                   \* (apply ended), "reverse" (using the reverse functions alone)
                   \* or "resolved" (having resolved a path by itself)
    call,          \* the apply call: which apply, template, context, options
    stack,         \* the C++ call stack below apply, innermost frame last
    ret,           \* what the frame that just ended handed up
    active_paths,  \* std::set<std::string> active_paths of permuto.cpp's apply
    ctx,           \* the thread_local ProcessingContext of TemplateProcessor
    outcome,       \* what apply gave its caller
    reverse,       \* the caller's create_reverse_template call and what it gave
    reconstructed, \* the caller's apply_reverse call and what it gave
    other          \* what a second thread holds while it is not running: its
                   \* position, call, call stack and thread_local context

vars ==
    <<pc, call, stack, ret, active_paths, ctx, outcome, reverse, reconstructed, other>>

NoCall == [fn |-> "none"]
NoRet == [k |-> "none"]
RetVal(v) == [k |-> "val", v |-> v]
RetOpt(o) == [k |-> "opt", o |-> o]
RetExc(e) == [k |-> "exc", e |-> e]
NoOutcome == [kind |-> "none"]

\* ProcessingContext: CycleDetector (path_stack_, path_set_) and current_depth
ProcessingContext(path_stack, path_set, current_depth) ==
    [path_stack |-> path_stack, path_set |-> path_set, current_depth |-> current_depth]

INITIAL_RECURSION_DEPTH == 0

Top == stack[Len(stack)]
Popped == SubSeq(stack, 1, Len(stack) - 1)
Running(fn) == pc = "running" /\ stack # <<>> /\ Top.fn = fn

\* the top frame ends and hands r up
Leave(r) == stack' = Popped /\ ret' = r
\* the top frame becomes top and calls child
Enter(top, child) == stack' = Append(Append(Popped, top), child) /\ ret' = NoRet
\* the top frame becomes top and goes on
Stay(top) == stack' = Append(Popped, top) /\ ret' = NoRet

opts == call.options
start_marker_ == call.options.start_marker
end_marker_ == call.options.end_marker

(***************************************************************************)
(* permuto.cpp: namespace detail                                           *)
(***************************************************************************)
\* detail::resolve_path: the optional it returns, or the exception it throws
detail_resolve_path(context, path, options) ==
    LET looked_up == detail_lookup(context, path) IN
    IF looked_up.found THEN [throws |-> FALSE, found |-> TRUE, v |-> looked_up.v]
    ELSE IF options.missing_key_behavior = "Error"
    THEN [throws |-> TRUE, e |-> MissingKeyException(path)]
    ELSE [throws |-> FALSE, found |-> FALSE]

process_node_frame(node, current_depth) ==
    [fn |-> "process_node", node |-> node, current_depth |-> current_depth,
     i |-> 0, acc |-> <<>>]
process_string_frame(template_str, current_depth) ==
    [fn |-> "process_string", template_str |-> template_str,
     current_depth |-> current_depth, called |-> FALSE]
process_exact_match_placeholder_frame(placeholder, current_depth) ==
    [fn |-> "process_exact_match_placeholder", placeholder |-> placeholder,
     current_depth |-> current_depth, called |-> FALSE]
resolve_and_process_placeholder_frame(path, full_placeholder, current_depth) ==
    [fn |-> "resolve_and_process_placeholder", path |-> path,
     full_placeholder |-> full_placeholder, current_depth |-> current_depth,
     called |-> FALSE, added_ |-> FALSE]
process_interpolated_string_frame(template_str, current_depth) ==
    [fn |-> "process_interpolated_string", template_str |-> template_str,
     current_depth |-> current_depth, called |-> FALSE, placeholders |-> <<>>,
     i |-> 1, result_stream |-> <<>>, current_pos |-> 0]

\* detail::process_node
process_node ==
    /\ Running("process_node")
    /\ LET f == Top
           n == IF is_object(f.node) THEN Len(f.node.o)
                ELSE IF is_array(f.node) THEN Len(f.node.a) ELSE 0
           child(i) == IF is_object(f.node) THEN f.node.o[i].v ELSE f.node.a[i]
           grown == IF is_object(f.node)
                    THEN Append(f.acc, Member(f.node.o[f.i].k, ret.v))
                    ELSE Append(f.acc, ret.v)
           built(acc) == IF is_object(f.node) THEN Obj(acc) ELSE Arr(acc)
       IN CASE ret.k = "exc" -> Leave(ret)
            [] ret.k = "none" ->
                 IF f.current_depth >= opts.max_recursion_depth
                 THEN Leave(RetExc(PermutoRecursionDepthException(
                                       f.current_depth, opts.max_recursion_depth)))
                 ELSE IF is_object(f.node) \/ is_array(f.node)
                 THEN IF n = 0 THEN Leave(RetVal(built(<<>>)))
                      ELSE Enter([f EXCEPT !.i = 1],
                                 process_node_frame(child(1), f.current_depth + 1))
                 ELSE IF is_string(f.node)
                 THEN Enter([f EXCEPT !.i = 1],
                            process_string_frame(f.node.s, f.current_depth))
                 ELSE Leave(RetVal(f.node))
            [] ret.k = "val" ->
                 IF is_string(f.node) THEN Leave(ret)
                 ELSE IF f.i = n THEN Leave(RetVal(built(grown)))
                 ELSE Enter([f EXCEPT !.i = f.i + 1, !.acc = grown],
                            process_node_frame(child(f.i + 1), f.current_depth + 1))
    /\ UNCHANGED <<pc, call, active_paths, ctx, outcome, reverse, reconstructed, other>>

\* detail::process_string
detail_process_string ==
    /\ Running("process_string")
    /\ LET f == Top
           placeholder == extract_placeholder_info(f.template_str, start_marker_, end_marker_)
       IN CASE ret.k = "exc" -> Leave(ret)
            [] ret.k = "val" -> Leave(ret)
            [] ret.k = "none" ->
                 IF f.current_depth >= opts.max_recursion_depth
                 THEN Leave(RetExc(PermutoRecursionDepthException(
                                       f.current_depth, opts.max_recursion_depth)))
                 ELSE IF placeholder.is_valid
                 THEN Enter([f EXCEPT !.called = TRUE],
                            process_exact_match_placeholder_frame(placeholder,
                                                                  f.current_depth))
                 ELSE IF ~opts.enable_interpolation
                 THEN Leave(RetVal(Str(f.template_str)))
                 ELSE Enter([f EXCEPT !.called = TRUE],
                            process_interpolated_string_frame(f.template_str,
                                                              f.current_depth))
    /\ UNCHANGED <<pc, call, active_paths, ctx, outcome, reverse, reconstructed, other>>

\* detail::process_exact_match_placeholder
process_exact_match_placeholder ==
    /\ Running("process_exact_match_placeholder")
    /\ LET f == Top
       IN CASE ret.k = "exc" -> Leave(ret)
            [] ret.k = "none" ->
                 Enter([f EXCEPT !.called = TRUE],
                       resolve_and_process_placeholder_frame(
                           f.placeholder.path, f.placeholder.full_placeholder,
                           f.current_depth))
            [] ret.k = "val" ->
                 IF opts.enable_interpolation
                 THEN Leave(RetVal(Str(stringify_json(ret.v))))
                 ELSE Leave(ret)
    /\ UNCHANGED <<pc, call, active_paths, ctx, outcome, reverse, reconstructed, other>>

\* a destructor that erases nothing
ActivePathGuard_release_keeping(paths, path_, added_) == paths

\* ActivePathGuard::~ActivePathGuard
ActivePathGuard_release(paths, path_, added_) ==
    IF added_ THEN paths \ {path_} ELSE paths

\* a resolve_and_process_placeholder that follows a chain of exact-match
\* placeholders in a loop of its own, with no guard and no deeper level
resolve_and_process_placeholder_following_chains ==
    /\ Running("resolve_and_process_placeholder")
    /\ LET f == Top
           resolved_opt == detail_resolve_path(call.context, f.path, opts)
           next == IF ~resolved_opt.throws /\ resolved_opt.found
                      /\ is_string(resolved_opt.v)
                   THEN extract_placeholder_info(resolved_opt.v.s, start_marker_,
                                                 end_marker_)
                   ELSE PlaceholderInfo(<<>>, <<>>, 0, 0, FALSE)
       IN CASE ret.k \in {"exc", "val"} ->
                 /\ UNCHANGED active_paths
                 /\ Leave(ret)
            [] ret.k = "none" ->
                 IF resolved_opt.throws
                 THEN /\ UNCHANGED active_paths
                      /\ Leave(RetExc(resolved_opt.e))
                 ELSE IF next.is_valid
                 THEN /\ UNCHANGED active_paths
                      /\ Stay([f EXCEPT !.path = next.path])
                 ELSE IF resolved_opt.found /\ is_string(resolved_opt.v)
                 THEN /\ UNCHANGED active_paths
                      /\ Enter([f EXCEPT !.called = TRUE],
                               process_string_frame(resolved_opt.v.s,
                                                    f.current_depth + 1))
                 ELSE /\ UNCHANGED active_paths
                      /\ Leave(RetVal(IF resolved_opt.found THEN resolved_opt.v
                                      ELSE Str(f.full_placeholder)))
    /\ UNCHANGED <<pc, call, ctx, outcome, reverse, reconstructed, other>>

\* detail::resolve_and_process_placeholder, ActivePathGuard included
resolve_and_process_placeholder ==
    /\ Running("resolve_and_process_placeholder")
    /\ LET f == Top
           resolved_opt == detail_resolve_path(call.context, f.path, opts)
           \* ActivePathGuard::ActivePathGuard: no insertion of an empty path
           added_ == f.path # <<>>
           guarded == IF added_ THEN active_paths \cup {f.path} ELSE active_paths
       IN CASE ret.k \in {"exc", "val"} ->
                 /\ active_paths' = ActivePathGuard_release(active_paths, f.path, f.added_)
                 /\ Leave(ret)
            [] ret.k = "none" ->
                 IF f.path # <<>> /\ f.path \in active_paths
                 THEN /\ Leave(RetExc(CycleException(f.path)))
                      /\ UNCHANGED active_paths
                 ELSE IF resolved_opt.throws
                 THEN /\ active_paths' = ActivePathGuard_release(guarded, f.path, added_)
                      /\ Leave(RetExc(resolved_opt.e))
                 ELSE IF resolved_opt.found /\ is_string(resolved_opt.v)
                 THEN /\ active_paths' = guarded
                      /\ Enter([f EXCEPT !.called = TRUE, !.added_ = added_],
                               process_string_frame(resolved_opt.v.s,
                                                    f.current_depth + 1))
                 ELSE /\ active_paths' = ActivePathGuard_release(guarded, f.path, added_)
                      /\ Leave(RetVal(IF resolved_opt.found THEN resolved_opt.v
                                      ELSE Str(f.full_placeholder)))
    /\ UNCHANGED <<pc, call, ctx, outcome, reverse, reconstructed, other>>

\* the loop of detail::process_interpolated_string from placeholder i on, up
\* to the next call of resolve_and_process_placeholder or the end of the loop
RECURSIVE interpolate_until_call(_, _, _, _, _)
interpolate_until_call(template_str, placeholders, i, result_stream, current_pos) ==
    IF i > Len(placeholders)
    THEN [ended |-> TRUE,
          result_stream |-> IF current_pos < Len(template_str)
                            THEN result_stream \o substr_from(template_str, current_pos)
                            ELSE result_stream]
    ELSE LET placeholder == placeholders[i]
             literal == result_stream
                        \o substr(template_str, current_pos,
                                  placeholder.start_pos - current_pos)
         IN IF placeholder.is_valid
            THEN [ended |-> FALSE, i |-> i, result_stream |-> literal]
            ELSE interpolate_until_call(template_str, placeholders, i + 1,
                                        literal \o placeholder.full_placeholder,
                                        placeholder.end_pos)

\* detail::process_interpolated_string
process_interpolated_string ==
    /\ Running("process_interpolated_string")
    /\ LET f == Top
           placeholders == find_all_placeholders(f.template_str, start_marker_, end_marker_)
           go(phs, i, result_stream, current_pos) ==
               LET r == interpolate_until_call(f.template_str, phs, i,
                                               result_stream, current_pos)
               IN IF r.ended THEN Leave(RetVal(Str(r.result_stream)))
                  ELSE Enter([f EXCEPT !.called = TRUE, !.placeholders = phs,
                                       !.i = r.i, !.result_stream = r.result_stream],
                             resolve_and_process_placeholder_frame(
                                 phs[r.i].path, phs[r.i].full_placeholder,
                                 f.current_depth + 1))
       IN CASE ret.k = "exc" -> Leave(ret)
            [] ret.k = "none" ->
                 IF f.current_depth >= opts.max_recursion_depth
                 THEN Leave(RetExc(PermutoRecursionDepthException(
                                       f.current_depth, opts.max_recursion_depth)))
                 ELSE IF placeholders = <<>>
                 THEN Leave(RetVal(Str(f.template_str)))
                 ELSE go(placeholders, 1, <<>>, 0)
            [] ret.k = "val" ->
                 go(f.placeholders, f.i + 1,
                    f.result_stream \o stringify_json(ret.v),
                    f.placeholders[f.i].end_pos)
    /\ UNCHANGED <<pc, call, active_paths, ctx, outcome, reverse, reconstructed, other>>

(***************************************************************************)
(* cycle_detector.cpp and template_processor.cpp                           *)
(***************************************************************************)
\* CycleDetector::would_create_cycle
would_create_cycle(c, path) == path \in c.path_set

\* CycleDetector::push_path
push_path(c, path) ==
    [c EXCEPT !.path_stack = Append(c.path_stack, path),
              !.path_set = c.path_set \cup {path}]

\* a pop_path that takes the path off the stack and leaves it in the set
pop_path_keeping_set(c) ==
    IF c.path_stack # <<>>
    THEN [c EXCEPT !.path_stack = SubSeq(c.path_stack, 1, Len(c.path_stack) - 1)]
    ELSE c

\* CycleDetector::pop_path
pop_path(c) ==
    IF c.path_stack # <<>>
    THEN [c EXCEPT !.path_set = c.path_set \ {c.path_stack[Len(c.path_stack)]},
                   !.path_stack = SubSeq(c.path_stack, 1, Len(c.path_stack) - 1)]
    ELSE c

\* CycleDetector::clear
clear(c) == [c EXCEPT !.path_stack = <<>>, !.path_set = {}]

\* TemplateProcessor::check_recursion_limit throws
check_recursion_limit_throws(c, options) ==
    c.current_depth >= options.max_recursion_depth

\* TemplateProcessor::enter_recursion, once the limit check has passed
enter_recursion(c) == [c EXCEPT !.current_depth = c.current_depth + 1]

\* an exit_recursion that leaves the depth as it is
exit_recursion_not_counting(c) == c

\* TemplateProcessor::exit_recursion
exit_recursion(c) ==
    IF c.current_depth > INITIAL_RECURSION_DEPTH
    THEN [c EXCEPT !.current_depth = c.current_depth - 1]
    ELSE c

process_frame == [fn |-> "process", called |-> FALSE]
process_value_frame(value) ==
    [fn |-> "process_value", value |-> value, called |-> FALSE]
TemplateProcessor_process_string_frame(str) ==
    [fn |-> "TemplateProcessor::process_string", str |-> str, st |-> "start",
     placeholders |-> <<>>, i |-> 1, result |-> <<>>, last_pos |-> 0]
process_object_frame(obj) ==
    [fn |-> "process_object", obj |-> obj, st |-> "loop", i |-> 1, result |-> <<>>]
process_array_frame(arr) ==
    [fn |-> "process_array", arr |-> arr, st |-> "loop", i |-> 1, result |-> <<>>]
resolve_path_frame(path) ==
    [fn |-> "resolve_path", path |-> path, pushed |-> FALSE]

\* TemplateProcessor::process
TemplateProcessor_process ==
    /\ Running("process")
    /\ CASE ret.k = "none" ->
              /\ ctx' = [clear(ctx) EXCEPT !.current_depth = INITIAL_RECURSION_DEPTH]
              /\ Enter([Top EXCEPT !.called = TRUE], process_value_frame(call.template))
         [] ret.k \in {"val", "exc"} -> Leave(ret) /\ UNCHANGED ctx
    /\ UNCHANGED <<pc, call, active_paths, outcome, reverse, reconstructed, other>>

\* TemplateProcessor::process_value
process_value ==
    /\ Running("process_value")
    /\ LET f == Top
       IN CASE ret.k = "none" ->
                 IF check_recursion_limit_throws(ctx, opts)
                 THEN /\ Leave(RetExc(RecursionLimitException(ctx.current_depth)))
                      /\ UNCHANGED ctx
                 ELSE IF is_string(f.value)
                 THEN /\ ctx' = enter_recursion(ctx)
                      /\ Enter([f EXCEPT !.called = TRUE],
                               TemplateProcessor_process_string_frame(f.value.s))
                 ELSE IF is_object(f.value)
                 THEN /\ ctx' = enter_recursion(ctx)
                      /\ Enter([f EXCEPT !.called = TRUE], process_object_frame(f.value))
                 ELSE IF is_array(f.value)
                 THEN /\ ctx' = enter_recursion(ctx)
                      /\ Enter([f EXCEPT !.called = TRUE], process_array_frame(f.value))
                 ELSE /\ ctx' = exit_recursion(enter_recursion(ctx))
                      /\ Leave(RetVal(f.value))
            [] ret.k \in {"val", "exc"} ->
                 /\ ctx' = exit_recursion(ctx)
                 /\ Leave(ret)
    /\ UNCHANGED <<pc, call, active_paths, outcome, reverse, reconstructed, other>>

\* TemplateProcessor::resolve_path
TemplateProcessor_resolve_path ==
    /\ Running("resolve_path")
    /\ LET f == Top
       IN IF ~f.pushed
          THEN IF would_create_cycle(ctx, f.path)
               THEN /\ Leave(RetExc(CycleException(f.path)))
                    /\ UNCHANGED ctx
               ELSE /\ ctx' = push_path(ctx, f.path)
                    /\ Stay([f EXCEPT !.pushed = TRUE])
          ELSE /\ ctx' = pop_path(ctx)
               /\ Leave(RetOpt(IF parse_path_throws(f.path) THEN NotFound
                               ELSE JsonPointer_resolve(call.context,
                                                        parse_path(f.path), 1)))
    /\ UNCHANGED <<pc, call, active_paths, outcome, reverse, reconstructed, other>>

\* TemplateProcessor::process_string returning null, not the original string,
\* for an exact-match placeholder that is missing
TemplateProcessor_process_string_null_for_missing ==
    /\ Running("TemplateProcessor::process_string")
    /\ LET f == Top
           exact_path == extract_exact_placeholder(f.str, start_marker_, end_marker_)
           placeholders == find_placeholders(f.str, start_marker_, end_marker_)
           \* replace_placeholders at placeholder i: the text before it, then
           \* the value_provider's call of resolve_path
           replace(phs, i, result, last_pos) ==
               IF i > Len(phs)
               THEN Leave(RetVal(Str(result \o substr_from(f.str, last_pos))))
               ELSE Enter([f EXCEPT !.st = "interpolate", !.placeholders = phs, !.i = i,
                                    !.result = result
                                        \o substr(f.str, last_pos,
                                                  phs[i].start_pos - last_pos)],
                          resolve_path_frame(phs[i].path))
       IN CASE ret.k = "exc" -> Leave(ret)
            [] ret.k = "none" ->
                 IF exact_path.has_value
                 THEN Enter([f EXCEPT !.st = "exact"], resolve_path_frame(exact_path.path))
                 ELSE IF ~opts.enable_interpolation
                 THEN Leave(RetVal(Str(f.str)))
                 ELSE IF placeholders = <<>>
                 THEN Leave(RetVal(Str(f.str)))
                 ELSE replace(placeholders, 1, <<>>, 0)
            [] ret.k = "opt" /\ f.st = "exact" ->
                 IF ret.o.found THEN Leave(RetVal(ret.o.v))
                 ELSE IF opts.missing_key_behavior = "Error"
                 THEN Leave(RetExc(MissingKeyException(exact_path.path)))
                 ELSE Leave(RetVal(Null))
            [] ret.k = "opt" /\ f.st = "interpolate" ->
                 LET path == f.placeholders[f.i].path IN
                 IF ~ret.o.found /\ opts.missing_key_behavior = "Error"
                 THEN Leave(RetExc(MissingKeyException(path)))
                 ELSE replace(f.placeholders, f.i + 1,
                              f.result \o (IF ret.o.found THEN json_to_string(ret.o.v)
                                           ELSE start_marker_ \o path \o end_marker_),
                              f.placeholders[f.i].end_pos)
    /\ UNCHANGED <<pc, call, active_paths, ctx, outcome, reverse, reconstructed, other>>

\* TemplateProcessor::process_string, PlaceholderParser::replace_placeholders
\* and the value_provider lambda included
TemplateProcessor_process_string ==
    /\ Running("TemplateProcessor::process_string")
    /\ LET f == Top
           exact_path == extract_exact_placeholder(f.str, start_marker_, end_marker_)
           placeholders == find_placeholders(f.str, start_marker_, end_marker_)
           \* replace_placeholders at placeholder i: the text before it, then
           \* the value_provider's call of resolve_path
           replace(phs, i, result, last_pos) ==
               IF i > Len(phs)
               THEN Leave(RetVal(Str(result \o substr_from(f.str, last_pos))))
               ELSE Enter([f EXCEPT !.st = "interpolate", !.placeholders = phs, !.i = i,
                                    !.result = result
                                        \o substr(f.str, last_pos,
                                                  phs[i].start_pos - last_pos)],
                          resolve_path_frame(phs[i].path))
       IN CASE ret.k = "exc" -> Leave(ret)
            [] ret.k = "none" ->
                 IF exact_path.has_value
                 THEN Enter([f EXCEPT !.st = "exact"], resolve_path_frame(exact_path.path))
                 ELSE IF ~opts.enable_interpolation
                 THEN Leave(RetVal(Str(f.str)))
                 ELSE IF placeholders = <<>>
                 THEN Leave(RetVal(Str(f.str)))
                 ELSE replace(placeholders, 1, <<>>, 0)
            [] ret.k = "opt" /\ f.st = "exact" ->
                 IF ret.o.found THEN Leave(RetVal(ret.o.v))
                 ELSE IF opts.missing_key_behavior = "Error"
                 THEN Leave(RetExc(MissingKeyException(exact_path.path)))
                 ELSE Leave(RetVal(Str(f.str)))
            [] ret.k = "opt" /\ f.st = "interpolate" ->
                 LET path == f.placeholders[f.i].path IN
                 IF ~ret.o.found /\ opts.missing_key_behavior = "Error"
                 THEN Leave(RetExc(MissingKeyException(path)))
                 ELSE replace(f.placeholders, f.i + 1,
                              f.result \o (IF ret.o.found THEN json_to_string(ret.o.v)
                                           ELSE start_marker_ \o path \o end_marker_),
                              f.placeholders[f.i].end_pos)
    /\ UNCHANGED <<pc, call, active_paths, ctx, outcome, reverse, reconstructed, other>>

\* TemplateProcessor::process_object putting null where it is to leave the
\* member out
process_object_null_for_missing ==
    /\ Running("process_object")
    /\ LET f == Top
           key == f.obj.o[f.i].k
           value == f.obj.o[f.i].v
           placeholder_path == IF is_string(value)
                               THEN extract_exact_placeholder(value.s, start_marker_,
                                                              end_marker_)
                               ELSE NoPath
       IN CASE ret.k = "exc" -> Leave(ret)
            [] ret.k = "none" ->
                 IF f.i > Len(f.obj.o) THEN Leave(RetVal(Obj(f.result)))
                 ELSE IF placeholder_path.has_value
                 THEN Enter([f EXCEPT !.st = "check"],
                            resolve_path_frame(placeholder_path.path))
                 ELSE Enter([f EXCEPT !.st = "value"], process_value_frame(value))
            [] ret.k = "opt" ->
                 IF ~ret.o.found /\ opts.missing_key_behavior = "Remove"
                 THEN Stay([f EXCEPT !.st = "loop", !.i = f.i + 1,
                                     !.result = Append(f.result, Member(key, Null))])
                 ELSE Enter([f EXCEPT !.st = "value"], process_value_frame(value))
            [] ret.k = "val" ->
                 Stay([f EXCEPT !.st = "loop", !.i = f.i + 1,
                                !.result = Append(f.result, Member(key, ret.v))])
    /\ UNCHANGED <<pc, call, active_paths, ctx, outcome, reverse, reconstructed, other>>

\* TemplateProcessor::process_object
process_object ==
    /\ Running("process_object")
    /\ LET f == Top
           key == f.obj.o[f.i].k
           value == f.obj.o[f.i].v
           placeholder_path == IF is_string(value)
                               THEN extract_exact_placeholder(value.s, start_marker_,
                                                              end_marker_)
                               ELSE NoPath
       IN CASE ret.k = "exc" -> Leave(ret)
            [] ret.k = "none" ->
                 IF f.i > Len(f.obj.o) THEN Leave(RetVal(Obj(f.result)))
                 ELSE IF placeholder_path.has_value
                 THEN Enter([f EXCEPT !.st = "check"],
                            resolve_path_frame(placeholder_path.path))
                 ELSE Enter([f EXCEPT !.st = "value"], process_value_frame(value))
            [] ret.k = "opt" ->
                 IF ~ret.o.found /\ opts.missing_key_behavior = "Remove"
                 THEN Stay([f EXCEPT !.st = "loop", !.i = f.i + 1])
                 ELSE Enter([f EXCEPT !.st = "value"], process_value_frame(value))
            [] ret.k = "val" ->
                 Stay([f EXCEPT !.st = "loop", !.i = f.i + 1,
                                !.result = Append(f.result, Member(key, ret.v))])
    /\ UNCHANGED <<pc, call, active_paths, ctx, outcome, reverse, reconstructed, other>>

\* TemplateProcessor::process_array
process_array ==
    /\ Running("process_array")
    /\ LET f == Top
           item == f.arr.a[f.i]
           placeholder_path == IF is_string(item)
                               THEN extract_exact_placeholder(item.s, start_marker_,
                                                              end_marker_)
                               ELSE NoPath
       IN CASE ret.k = "exc" -> Leave(ret)
            [] ret.k = "none" ->
                 IF f.i > Len(f.arr.a) THEN Leave(RetVal(Arr(f.result)))
                 ELSE IF placeholder_path.has_value
                 THEN Enter([f EXCEPT !.st = "check"],
                            resolve_path_frame(placeholder_path.path))
                 ELSE Enter([f EXCEPT !.st = "value"], process_value_frame(item))
            [] ret.k = "opt" ->
                 IF ~ret.o.found /\ opts.missing_key_behavior = "Remove"
                 THEN Stay([f EXCEPT !.st = "loop", !.i = f.i + 1])
                 ELSE Enter([f EXCEPT !.st = "value"], process_value_frame(item))
            [] ret.k = "val" ->
                 Stay([f EXCEPT !.st = "loop", !.i = f.i + 1,
                                !.result = Append(f.result, ret.v)])
    /\ UNCHANGED <<pc, call, active_paths, ctx, outcome, reverse, reconstructed, other>>

(***************************************************************************)
(* Inputs                                                                  *)
(***************************************************************************)
\* the longest placeholder chain a context holds
MaxChain == 3
\* the largest max_recursion_depth tried
MaxRecursionDepth == 6

DefaultStart == <<"$", "{">>
DefaultEnd == <<"}">>

\* start marker + path + end marker, written with the default markers
PH(path) == DefaultStart \o path \o DefaultEnd
P(key) == <<"/">> \o key

\* key of chain level i
Level(i) == <<DigitChars[i + 1]>>

\* {"1": "${/2}", ..., "N": "end"} followed by the fixed members, in key order
ChainMembers(N) ==
    [i \in 1..N |-> Member(Level(i), IF i < N THEN Str(PH(P(Level(i + 1))))
                                      ELSE Str(<<"e", "n", "d">>))]
FixedMembers ==
    << Member(<<"a">>, Str(PH(P(<<"b">>)))),
       Member(<<"b">>, Str(PH(P(<<"a">>)))),
       Member(<<"f">>, Str(PH(P(<<"u">>)))),
       Member(<<"n">>, Num(7)),
       Member(<<"o">>, Obj(<<Member(<<"k">>, Str(<<"v">>))>>)),
       Member(<<"r">>, Arr(<<Num(1), Bool(FALSE)>>)),
       Member(<<"s">>, Str(PH(P(<<"s">>)))),
       Member(<<"t">>, Bool(TRUE)),
       Member(<<"u">>, Str(<<"A", "l">>)),
       Member(<<"z">>, Null) >>
Context(N) == Obj(ChainMembers(N) \o FixedMembers)
EmptyContext == Obj(<<>>)
Contexts == {EmptyContext} \cup {Context(N) : N \in 1..MaxChain}

Keep == <<"k", "e", "e", "p">>
\* the strings templates are made of
ExactStrings ==
    { PH(P(<<"n">>)), PH(P(<<"t">>)), PH(P(<<"z">>)), PH(P(<<"r">>)),
      PH(P(<<"o">>)), PH(P(<<"u">>)), PH(P(<<"f">>)), PH(P(<<"1">>)),
      PH(P(<<"a">>)), PH(P(<<"s">>)), PH(P(<<"x">>)), PH(<<"/", "r", "/", "0">>) }
OtherStrings ==
    { Keep, PH(<<"x">>), PH(<<>>),
      <<"H", "i", " ">> \o PH(P(<<"u">>)),
      PH(P(<<"n">>)) \o PH(P(<<"t">>)),
      <<"=">> \o PH(P(<<"a">>)) }
TemplateStrings == ExactStrings \cup OtherStrings
\* the strings paired up in two-element containers
PairStrings == { PH(P(<<"n">>)), PH(P(<<"u">>)), PH(P(<<"x">>)), Keep }

RemoveArray ==
    Arr(<< Str(PH(P(<<"u">>))), Str(PH(P(<<"x">>))), Str(Keep),
           Str(PH(P(<<"n">>))), Obj(<<Member(<<"k">>, Str(<<"v">>))>>) >>)
Nested ==
    Obj(<<Member(<<"a">>, Obj(<<Member(<<"b">>,
          Arr(<<Str(PH(P(<<"u">>))), Num(4)>>))>>))>>)

\* templates whose placeholders name a context path and a prefix of it
ConflictTemplates ==
    { Obj(<<Member(<<"v", "1">>, Str(PH(<<"/", "a">>))),
            Member(<<"v", "2">>, Str(PH(<<"/", "a", "/", "b">>)))>>),
      Obj(<<Member(<<"v", "1">>, Str(PH(<<"/", "a", "/", "b">>))),
            Member(<<"v", "2">>, Str(PH(<<"/", "a">>)))>>) }
\* {"p": "${/o/k}", "q": "${/n}"}
DeepPaths ==
    Obj(<<Member(<<"p">>, Str(PH(<<"/", "o", "/", "k">>))),
          Member(<<"q">>, Str(PH(P(<<"n">>))))>>)

\* "${n}": a path without '/' that names a key of the context, alone and as
\* {"r": "${n}"}
DotPlaceholder == PH(<<"n">>)
DotTemplates == { Str(DotPlaceholder), Obj(<<Member(<<"r">>, Str(DotPlaceholder))>>) }

\* "=${/u}${/u}" and "=${/f}${/f}": one path twice in an interpolated string,
\* /f being the start of a chain
RepeatTemplates ==
    { Str(<<"=">> \o PH(P(<<"u">>)) \o PH(P(<<"u">>))),
      Str(<<"=">> \o PH(P(<<"f">>)) \o PH(P(<<"f">>))) }

\* {"a/b": "${/n}"}, {"~": "${/n}"}, {"~0": "${/n}"} and {"~1": "${/n}"}
SpecialKeys == {<<"a", "/", "b">>, <<"~">>, <<"~", "0">>, <<"~", "1">>}
SpecialKeyTemplates == {Obj(<<Member(key, Str(PH(P(<<"n">>))))>>) : key \in SpecialKeys}

\* the reverse templates and result documents a caller hands apply_reverse
ResultDocuments == { Obj(<<Member(<<"r">>, Num(7))>>), Obj(<<>>) }
ReverseTemplates ==
    { Obj(<<>>), Arr(<<>>), Null, Num(5),
      Arr(<<Str(<<"/", "r">>)>>),
      Str(<<"/", "r">>),
      Obj(<<Member(<<"n">>, Str(<<"/", "r">>))>>),
      Obj(<<Member(<<"n">>, Str(<<"/", "x">>))>>),
      Obj(<<Member(<<"n">>, Str(<<"r">>))>>),
      Obj(<<Member(<<"n">>, Num(5))>>),
      Obj(<<Member(<<"u">>, Obj(<<Member(<<"n">>, Str(<<"/", "r">>))>>))>>),
      Obj(<<Member(<<"u">>, Obj(<<Member(<<"n">>, Str(<<"/", "x">>))>>))>>),
      Obj(<<Member(<<"/", "r">>, Str(<<"/", "n">>))>>),
      Obj(<<Member(<<"/", "x">>, Str(<<"/", "n">>))>>),
      Obj(<<Member(<<"/", "r">>, Str(<<"/", "n">>)),
            Member(<<"/", "x">>, Str(<<"/", "u">>))>>) }

Templates ==
    {Str(s) : s \in TemplateStrings}
    \cup {Obj(<<Member(<<"r">>, Str(s))>>) : s \in TemplateStrings}
    \cup {Obj(<<Member(<<"a">>, Str(s)), Member(<<"b">>, Str(t))>>) :
              s \in PairStrings \cup {PH(<<"x">>)}, t \in {Keep, PH(P(<<"x">>))}}
    \cup {Arr(<<Str(s), Str(t)>>) : s \in PairStrings, t \in PairStrings}
    \cup {RemoveArray, Nested, Num(4), Arr(<<>>), Obj(<<>>)}
    \cup ConflictTemplates \cup {DeepPaths} \cup DotTemplates \cup RepeatTemplates
    \cup SpecialKeyTemplates

MarkerPairs ==
    { <<DefaultStart, DefaultEnd>>, <<<<>>, DefaultEnd>>, <<DefaultStart, <<>>>>,
      <<<<"#">>, <<"#">>>> }

\* every Options value tried; permuto.cpp's Options has no Remove policy
AllOptions ==
    { Options(m[1], m[2], interp, missing, depth) :
          m \in MarkerPairs, interp \in BOOLEAN,
          missing \in {"Ignore", "Error", "Remove"}, depth \in 0..MaxRecursionDepth }

(***************************************************************************)
(* apply and its caller                                                    *)
(***************************************************************************)
Init ==
    /\ pc = "idle"
    /\ call = NoCall
    /\ stack = <<>>
    /\ ret = NoRet
    /\ active_paths = {}
    /\ ctx = ProcessingContext(<<>>, {}, 0)
    /\ outcome = NoOutcome
    /\ reverse = NoOutcome
    /\ reconstructed = NoOutcome
    /\ other = [pc |-> "idle", call |-> NoCall, stack |-> <<>>, ret |-> NoRet,
                active_paths |-> {}, ctx |-> ProcessingContext(<<>>, {}, 0),
                outcome |-> NoOutcome]

\* permuto::apply of permuto.cpp, up to its call of detail::process_node
apply ==
    /\ pc = "idle"
    /\ \E template \in Templates, context \in Contexts, options \in AllOptions :
          /\ options.missing_key_behavior # "Remove"
          /\ call' = [fn |-> "apply", template |-> template, context |-> context,
                      options |-> options]
          /\ IF Options_validate_throws(options)
             THEN /\ pc' = "done"
                  /\ outcome' = [kind |-> "Configuration"]
                  /\ UNCHANGED <<stack, active_paths>>
             ELSE /\ pc' = "running"
                  /\ outcome' = NoOutcome
                  /\ active_paths' = {}
                  /\ stack' = <<process_node_frame(template, 0)>>
    /\ UNCHANGED <<ret, ctx, reverse, reconstructed, other>>

\* permuto::apply of api.cpp with a TemplateProcessor constructor that does
\* not call options_.validate()
api_apply_unvalidated ==
    /\ pc = "idle"
    /\ \E template \in Templates, context \in Contexts, options \in AllOptions :
          /\ call' = [fn |-> "api_apply", template |-> template, context |-> context,
                      options |-> options]
          /\ IF \/ /\ options.missing_key_behavior = "Remove"
                   /\ is_string(template)
                   /\ \/ PlaceholderParser_throws(options.start_marker,
                                                  options.end_marker)
                      \/ extract_exact_placeholder(template.s, options.start_marker,
                                                   options.end_marker).has_value
                \/ PlaceholderParser_throws(options.start_marker, options.end_marker)
             THEN /\ pc' = "done"
                  /\ outcome' = [kind |-> "Configuration"]
                  /\ UNCHANGED stack
             ELSE /\ pc' = "running"
                  /\ outcome' = NoOutcome
                  /\ stack' = <<process_frame>>
    /\ UNCHANGED <<ret, active_paths, ctx, reverse, reconstructed, other>>

\* permuto::apply of api.cpp, up to its call of TemplateProcessor::process
api_apply ==
    /\ pc = "idle"
    /\ \E template \in Templates, context \in Contexts, options \in AllOptions :
          /\ call' = [fn |-> "api_apply", template |-> template, context |-> context,
                      options |-> options]
          /\ IF \/ /\ options.missing_key_behavior = "Remove"
                   /\ is_string(template)
                   /\ \/ PlaceholderParser_throws(options.start_marker,
                                                  options.end_marker)
                      \/ extract_exact_placeholder(template.s, options.start_marker,
                                                   options.end_marker).has_value
                \/ PlaceholderParser_throws(options.start_marker, options.end_marker)
                \/ TemplateProcessor_Options_validate_throws(options)
             THEN /\ pc' = "done"
                  /\ outcome' = [kind |-> "Configuration"]
                  /\ UNCHANGED stack
             ELSE /\ pc' = "running"
                  /\ outcome' = NoOutcome
                  /\ stack' = <<process_frame>>
    /\ UNCHANGED <<ret, active_paths, ctx, reverse, reconstructed, other>>

\* what apply hands its caller: the value returned or the exception thrown
Outcome(r) ==
    IF r.k = "val" THEN [kind |-> "value", v |-> r.v]
    ELSE [kind |-> r.e.type, e |-> r.e]

\* permuto::apply of permuto.cpp returns what detail::process_node returned
apply_return ==
    /\ pc = "running" /\ call.fn = "apply" /\ stack = <<>> /\ ret.k \in {"val", "exc"}
    /\ pc' = "done"
    /\ outcome' = Outcome(ret)
    /\ ret' = NoRet
    /\ UNCHANGED <<call, stack, active_paths, ctx, reverse, reconstructed, other>>

\* permuto::apply of api.cpp returns what TemplateProcessor::process returned
api_apply_return ==
    /\ pc = "running" /\ call.fn = "api_apply" /\ stack = <<>> /\ ret.k \in {"val", "exc"}
    /\ pc' = "done"
    /\ outcome' = Outcome(ret)
    /\ ret' = NoRet
    /\ UNCHANGED <<call, stack, active_paths, ctx, reverse, reconstructed, other>>

\* what a reverse function hands its caller
Handed(fn, input, r) ==
    IF r.throws THEN [kind |-> r.type, fn |-> fn, input |-> input]
    ELSE [kind |-> "value", fn |-> fn, input |-> input, v |-> r.v]

\* the caller of permuto.cpp's apply calls create_reverse_template with the
\* template and options of its last call
create_reverse_template_call ==
    /\ pc = "done" /\ call.fn = "apply"
    /\ reverse = NoOutcome
    /\ reverse' = Handed("create_reverse_template",
                         [template |-> call.template, options |-> call.options],
                         create_reverse_template(call.template, call.options))
    /\ UNCHANGED <<pc, call, stack, ret, active_paths, ctx, outcome, reconstructed, other>>

\* the caller of api.cpp's apply calls create_reverse_template with the
\* template and options of its last call
api_create_reverse_template_call ==
    /\ pc = "done" /\ call.fn = "api_apply"
    /\ reverse = NoOutcome
    /\ reverse' = Handed("api_create_reverse_template",
                         [template |-> call.template, options |-> call.options],
                         api_create_reverse_template(call.template, call.options))
    /\ UNCHANGED <<pc, call, stack, ret, active_paths, ctx, outcome, reconstructed, other>>

\* a caller of permuto.cpp's apply_reverse: with the reverse template and the
\* result it was just given, or with documents of its own
apply_reverse_call ==
    /\ reconstructed = NoOutcome
    /\ \/ /\ pc = "done" /\ call.fn = "apply"
          /\ reverse.kind = "value" /\ outcome.kind = "value"
          /\ reconstructed' = Handed("apply_reverse",
                                     [reverse_template |-> reverse.v,
                                      result_json |-> outcome.v],
                                     apply_reverse(reverse.v, outcome.v))
          /\ pc' = pc
       \/ /\ pc = "idle"
          /\ \E reverse_template \in ReverseTemplates, result_json \in ResultDocuments :
                reconstructed' = Handed("apply_reverse",
                                        [reverse_template |-> reverse_template,
                                         result_json |-> result_json],
                                        apply_reverse(reverse_template, result_json))
          /\ pc' = "reverse"
    /\ UNCHANGED <<call, stack, ret, active_paths, ctx, outcome, reverse, other>>

\* a caller of api.cpp's apply_reverse, likewise
api_apply_reverse_call ==
    /\ reconstructed = NoOutcome
    /\ \/ /\ pc = "done" /\ call.fn = "api_apply"
          /\ reverse.kind = "value" /\ outcome.kind = "value"
          /\ reconstructed' = Handed("api_apply_reverse",
                                     [reverse_template |-> reverse.v,
                                      result_json |-> outcome.v],
                                     api_apply_reverse(reverse.v, outcome.v))
          /\ pc' = pc
       \/ /\ pc = "idle"
          /\ \E reverse_template \in ReverseTemplates, result_json \in ResultDocuments :
                reconstructed' = Handed("api_apply_reverse",
                                        [reverse_template |-> reverse_template,
                                         result_json |-> result_json],
                                        api_apply_reverse(reverse_template, result_json))
          /\ pc' = "reverse"
    /\ UNCHANGED <<call, stack, ret, active_paths, ctx, outcome, reverse, other>>

\* the caller goes on to its next call of apply
next_call ==
    /\ pc \in {"done", "reverse", "resolved"}
    /\ pc' = "idle"
    /\ call' = NoCall
    /\ outcome' = NoOutcome
    /\ reverse' = NoOutcome
    /\ reconstructed' = NoOutcome
    /\ UNCHANGED <<stack, ret, active_paths, ctx, other>>

Next ==
    \/ apply
    \/ process_node
    \/ detail_process_string
    \/ process_exact_match_placeholder
    \/ resolve_and_process_placeholder
    \/ process_interpolated_string
    \/ apply_return
    \/ api_apply
    \/ TemplateProcessor_process
    \/ process_value
    \/ TemplateProcessor_process_string
    \/ process_object
    \/ process_array
    \/ TemplateProcessor_resolve_path
    \/ api_apply_return
    \/ create_reverse_template_call
    \/ apply_reverse_call
    \/ api_create_reverse_template_call
    \/ api_apply_reverse_call
    \/ next_call

Spec == Init /\ [][Next]_vars

(***************************************************************************)
(* Path resolution by itself                                               *)
(***************************************************************************)
\* the segments paths are made of: members of the contexts and array indexes
(***************************************************************************)
(* Calls of apply that are executed to their end                           *)
(***************************************************************************)
\* the max_recursion_depth values of these calls
ChainDepths == {1, 3, MaxRecursionDepth}
\* "${/a}", {"r": "${/s}"}, "${/1}", "=${/a}" and {"a": {"b": ["${/u}", 4]}}
ChainTemplates ==
    { Str(PH(P(<<"a">>))),
      Obj(<<Member(<<"r">>, Str(PH(P(<<"s">>))))>>),
      Str(PH(P(<<"1">>))),
      Str(<<"=">> \o PH(P(<<"a">>))),
      Nested }
ChainOptions ==
    { Options(DefaultStart, DefaultEnd, interp, missing, depth) :
          interp \in BOOLEAN, missing \in {"Ignore", "Error", "Remove"},
          depth \in ChainDepths }

\* permuto::apply of permuto.cpp called with these arguments, up to its call
\* of detail::process_node
chain_apply ==
    /\ pc = "idle"
    /\ \E template \in ChainTemplates, context \in Contexts, options \in ChainOptions :
          /\ options.missing_key_behavior # "Remove"
          /\ call' = [fn |-> "apply", template |-> template, context |-> context,
                      options |-> options]
          /\ IF Options_validate_throws(options)
             THEN /\ pc' = "done"
                  /\ outcome' = [kind |-> "Configuration"]
                  /\ UNCHANGED <<stack, active_paths>>
             ELSE /\ pc' = "running"
                  /\ outcome' = NoOutcome
                  /\ active_paths' = {}
                  /\ stack' = <<process_node_frame(template, 0)>>
    /\ UNCHANGED <<ret, ctx, reverse, reconstructed, other>>

\* permuto::apply of api.cpp called with these arguments, up to its call of
\* TemplateProcessor::process
api_chain_apply ==
    /\ pc = "idle"
    /\ \E template \in ChainTemplates, context \in Contexts, options \in ChainOptions :
          /\ call' = [fn |-> "api_apply", template |-> template, context |-> context,
                      options |-> options]
          /\ IF \/ /\ options.missing_key_behavior = "Remove"
                   /\ is_string(template)
                   /\ \/ PlaceholderParser_throws(options.start_marker,
                                                  options.end_marker)
                      \/ extract_exact_placeholder(template.s, options.start_marker,
                                                   options.end_marker).has_value
                \/ PlaceholderParser_throws(options.start_marker, options.end_marker)
                \/ TemplateProcessor_Options_validate_throws(options)
             THEN /\ pc' = "done"
                  /\ outcome' = [kind |-> "Configuration"]
                  /\ UNCHANGED stack
             ELSE /\ pc' = "running"
                  /\ outcome' = NoOutcome
                  /\ stack' = <<process_frame>>
    /\ UNCHANGED <<ret, active_paths, ctx, reverse, reconstructed, other>>

TerminationNext ==
    \/ chain_apply
    \/ process_node
    \/ detail_process_string
    \/ process_exact_match_placeholder
    \/ resolve_and_process_placeholder
    \/ process_interpolated_string
    \/ apply_return
    \/ api_chain_apply
    \/ TemplateProcessor_process
    \/ process_value
    \/ TemplateProcessor_process_string
    \/ process_object
    \/ process_array
    \/ TemplateProcessor_resolve_path
    \/ api_apply_return
    \/ next_call

\* a step of a call of apply that has started
ApplyStep == pc = "running" /\ TerminationNext

\* the thread that executes a call keeps executing it: no step of apply waits
\* for anything outside the call
TerminationSpec == Init /\ [][TerminationNext]_vars /\ WF_vars(ApplyStep)

FirstSegments == {<<"r">>, <<"o">>, <<"n">>, <<"u">>, <<"x">>}
NextSegments ==
    {<<"0">>, <<"1">>, <<"2">>, <<"x">>, <<"1", "x">>, <<"+", "1">>, <<"-", "1">>,
     <<"k">>}
ResolvePaths ==
    {<<"/">> \o a : a \in FirstSegments}
    \cup {<<"/">> \o a \o <<"/">> \o b : a \in FirstSegments, b \in NextSegments}

\* what a resolution hands its caller
Resolved(fn, path, context, r) ==
    [fn |-> fn, path |-> path, context |-> context, found |-> r.found,
     v |-> IF r.found THEN r.v ELSE Null]

\* a caller constructs JsonPointer(path) and calls resolve(context)
JsonPointer_resolve_call ==
    /\ pc = "idle"
    /\ \E path \in ResolvePaths, context \in Contexts :
          call' = Resolved("JsonPointer::resolve", path, context,
                           JsonPointer_resolve(context, parse_path(path), 1))
    /\ pc' = "resolved"
    /\ UNCHANGED <<stack, ret, active_paths, ctx, outcome, reverse, reconstructed, other>>

\* a caller calls detail::resolve_path(context, path, options) with the
\* Ignore policy
detail_resolve_path_call ==
    /\ pc = "idle"
    /\ \E path \in ResolvePaths, context \in Contexts :
          call' = Resolved("detail::resolve_path", path, context,
                           detail_lookup(context, path))
    /\ pc' = "resolved"
    /\ UNCHANGED <<stack, ret, active_paths, ctx, outcome, reverse, reconstructed, other>>

ResolveNext ==
    \/ JsonPointer_resolve_call
    \/ detail_resolve_path_call
    \/ next_call

ResolveSpec == Init /\ [][ResolveNext]_vars

(***************************************************************************)
(* Two threads calling apply of api.cpp                                    *)
(***************************************************************************)
\* the max_recursion_depth values the two threads pass
ThreadDepths == {2, 4}
\* "${/u}", {"r": "${/u}"}, {"r": "${/x}"}, "Hi ${/u}" and {"a": {"b": ["${/u}", 4]}}
ThreadTemplates ==
    { Str(PH(P(<<"u">>))),
      Obj(<<Member(<<"r">>, Str(PH(P(<<"u">>))))>>),
      Obj(<<Member(<<"r">>, Str(PH(P(<<"x">>))))>>),
      Str(<<"H", "i", " ">> \o PH(P(<<"u">>))),
      Nested }
\* Remove is valid only with interpolation disabled
ThreadOptions ==
    { Options(DefaultStart, DefaultEnd, missing # "Remove", missing, depth) :
          missing \in {"Ignore", "Error", "Remove"}, depth \in ThreadDepths }

\* the registers of a thread: its position in the caller, its call, its call
\* stack, the value in flight and its thread_local ProcessingContext
Registers(p, c, st, r, ap, context, o) ==
    [pc |-> p, call |-> c, stack |-> st, ret |-> r, active_paths |-> ap,
     ctx |-> context, outcome |-> o]

\* permuto::apply of api.cpp called by the running thread, up to its call of
\* TemplateProcessor::process
thread_apply ==
    /\ pc = "idle"
    /\ \E template \in ThreadTemplates, context \in {Context(1)},
          options \in ThreadOptions :
          /\ call' = [fn |-> "api_apply", template |-> template, context |-> context,
                      options |-> options]
          /\ IF \/ /\ options.missing_key_behavior = "Remove"
                   /\ is_string(template)
                   /\ \/ PlaceholderParser_throws(options.start_marker,
                                                  options.end_marker)
                      \/ extract_exact_placeholder(template.s, options.start_marker,
                                                   options.end_marker).has_value
                \/ PlaceholderParser_throws(options.start_marker, options.end_marker)
                \/ TemplateProcessor_Options_validate_throws(options)
             THEN /\ pc' = "done"
                  /\ outcome' = [kind |-> "Configuration"]
                  /\ UNCHANGED stack
             ELSE /\ pc' = "running"
                  /\ outcome' = NoOutcome
                  /\ stack' = <<process_frame>>
    /\ UNCHANGED <<ret, active_paths, ctx, reverse, reconstructed, other>>

\* the scheduler runs the other thread, whose ProcessingContext is the one
\* the running thread keeps using
switch_sharing_context ==
    /\ other' = Registers(pc, call, stack, ret, active_paths, ctx, outcome)
    /\ pc' = other.pc
    /\ call' = other.call
    /\ stack' = other.stack
    /\ ret' = other.ret
    /\ active_paths' = other.active_paths
    /\ ctx' = ctx
    /\ outcome' = other.outcome
    /\ UNCHANGED <<reverse, reconstructed>>

\* the scheduler runs the other thread: TemplateProcessor::get_processing_context
\* hands each thread the thread_local ProcessingContext of that thread, and
\* the call stack and the processor's const options_ go with the thread
switch ==
    /\ other' = Registers(pc, call, stack, ret, active_paths, ctx, outcome)
    /\ pc' = other.pc
    /\ call' = other.call
    /\ stack' = other.stack
    /\ ret' = other.ret
    /\ active_paths' = other.active_paths
    /\ ctx' = other.ctx
    /\ outcome' = other.outcome
    /\ UNCHANGED <<reverse, reconstructed>>

ConcurrentNext ==
    \/ thread_apply
    \/ TemplateProcessor_process
    \/ process_value
    \/ TemplateProcessor_process_string
    \/ process_object
    \/ process_array
    \/ TemplateProcessor_resolve_path
    \/ api_apply_return
    \/ next_call
    \/ switch

ConcurrentSpec == Init /\ [][ConcurrentNext]_vars

(***************************************************************************)
(* A CycleDetector and its caller                                          *)
(***************************************************************************)
\* the longest stack the caller builds
MaxPushes == 3
\* the paths the caller pushes
DetectorPaths == {P(<<"a">>), P(<<"b">>), <<>>}

\* the caller's last call on the detector and the detector before it
Called(fn, before) == [fn |-> fn, before |-> before]

\* the caller calls push_path, whatever would_create_cycle says
CycleDetector_push_path ==
    /\ pc = "idle"
    /\ Len(ctx.path_stack) < MaxPushes
    /\ \E path \in DetectorPaths :
          /\ ctx' = push_path(ctx, path)
          /\ call' = Called("push_path", ctx)
    /\ UNCHANGED <<pc, stack, ret, active_paths, outcome, reverse, reconstructed, other>>

\* the caller calls pop_path, on an empty detector too
CycleDetector_pop_path ==
    /\ pc = "idle"
    /\ ctx' = pop_path(ctx)
    /\ call' = Called("pop_path", ctx)
    /\ UNCHANGED <<pc, stack, ret, active_paths, outcome, reverse, reconstructed, other>>

\* the caller calls clear
CycleDetector_clear ==
    /\ pc = "idle"
    /\ ctx' = clear(ctx)
    /\ call' = Called("clear", ctx)
    /\ UNCHANGED <<pc, stack, ret, active_paths, outcome, reverse, reconstructed, other>>

\* CycleDetector::get_current_path
get_current_path(c) == c.path_stack

DetectorNext ==
    \/ CycleDetector_push_path
    \/ CycleDetector_pop_path
    \/ CycleDetector_clear

DetectorSpec == Init /\ [][DetectorNext]_vars

(***************************************************************************)
(* Properties                                                              *)
(***************************************************************************)
\* apply has returned a value to its caller
Returned == pc = "done" /\ outcome.kind = "value"

\* the path between the default markers of an exact-match string
ExactPath(s) == substr(s, Len(DefaultStart), Len(s) - Len(DefaultStart) - Len(DefaultEnd))

\* {"r": v}
Wrapped(v) == Obj(<<Member(<<"r">>, v)>>)

\* C1: an exact-match placeholder whose path resolves to a non-string value v
\* makes apply return exactly v, type unchanged, with interpolation off and on
\* (as the whole template and as the value of an object member).
C1_ExactMatchTypePreserved ==
    Returned =>
        \A s \in ExactStrings :
            LET v == detail_lookup(call.context, ExactPath(s)) IN
            (v.found /\ ~is_string(v.v)) =>
                /\ call.template = Str(s) => outcome.v = v.v
                /\ call.template = Wrapped(Str(s)) => outcome.v = Wrapped(v.v)

\* apply has ended and its options were accepted
Ended == pc = "done" /\ outcome.kind # "Configuration"

\* the contexts with /a -> "${/b}", /b -> "${/a}" and /s -> "${/s}"
CyclicContexts == {Context(N) : N \in 1..MaxChain}

\* the templates that contain the exact-match string "${/a}" or "${/s}"
CycleTemplates ==
    { Str(PH(P(<<"a">>))), Wrapped(Str(PH(P(<<"a">>)))),
      Str(PH(P(<<"s">>))), Wrapped(Str(PH(P(<<"s">>)))) }

\* C2: with /a -> "${/b}" and /b -> "${/a}" (or /s -> "${/s}") in the context,
\* apply on a template containing the exact-match string "${/a}" ("${/s}")
\* fails with a Cycle error instead of returning a value, interpolation on or
\* off (the recursion limit being large enough to reach the repetition).
C2_CycleRaised ==
    (/\ Ended
     /\ call.context \in CyclicContexts
     /\ call.template \in CycleTemplates
     /\ call.options.max_recursion_depth = MaxRecursionDepth)
    => outcome.kind = "Cycle"

\* C3: an exact-match placeholder that resolves to a string has that string
\* processed again as a template string, so /f -> "${/u}" -> "Al" yields "Al",
\* and the placeholder's path is in the active-path set for the whole of the
\* re-processing.
C3_ResolvedStringReprocessed ==
    /\ (/\ Ended
        /\ call.context \in CyclicContexts
        /\ call.options.max_recursion_depth = MaxRecursionDepth)
       => /\ call.template = Str(PH(P(<<"f">>)))
             => outcome = [kind |-> "value", v |-> Str(<<"A", "l">>)]
          /\ call.template = Wrapped(Str(PH(P(<<"f">>))))
             => outcome = [kind |-> "value", v |-> Wrapped(Str(<<"A", "l">>))]
    /\ \A i \in 1..Len(stack) :
          (/\ stack[i].fn = "resolve_and_process_placeholder"
           /\ stack[i].called
           /\ stack[i].path # <<>>)
          => stack[i].path \in active_paths

\* the template {"result": "${/level1}"} over a chain of N hops
ChainCall(N) ==
    /\ pc = "done"
    /\ call.fn = "apply"
    /\ ~Options_validate_throws(call.options)
    /\ call.template = Wrapped(Str(PH(P(Level(1)))))
    /\ call.context = Context(N)

\* C4: for {"result": "${/level1}"} over a chain of N exact-match hops ending
\* in a literal, apply with max_recursion_depth = k succeeds iff N <= k and
\* raises RecursionLimit otherwise.
C4_ChainSucceedsIffWithinLimit ==
    \A N \in 1..MaxChain :
        ChainCall(N) =>
            IF N <= call.options.max_recursion_depth
            THEN outcome.kind = "value"
            ELSE outcome.kind = "RecursionLimit"

\* C5: when apply raises RecursionLimit on a placeholder chain with
\* max_recursion_depth = k, the error carries current depth k + 1 and limit k.
C5_RecursionLimitCarriesDepth ==
    \A N \in 1..MaxChain :
        (ChainCall(N) /\ outcome.kind = "RecursionLimit") =>
            /\ outcome.e.current = call.options.max_recursion_depth + 1
            /\ outcome.e.limit = call.options.max_recursion_depth

\* the string is start marker + path + end marker with no further marker in
\* the path (default markers)
IsExactMatchString(s) ==
    /\ Len(s) > Len(DefaultStart) + Len(DefaultEnd)
    /\ substr(s, 0, Len(DefaultStart)) = DefaultStart
    /\ substr_from(s, Len(s) - Len(DefaultEnd)) = DefaultEnd
    /\ find(ExactPath(s), DefaultStart, 0) = npos
    /\ find(ExactPath(s), DefaultEnd, 0) = npos

\* the entry is an exact-match placeholder that does not resolve
Unresolved(v, context) ==
    /\ is_string(v)
    /\ IsExactMatchString(v.s)
    /\ ~detail_lookup(context, ExactPath(v.s)).found

\* the strings whose processing is plain: a literal, an exact-match pointer
\* that is missing or resolves to a value without markers, or two
\* placeholders side by side
PlainStrings ==
    { Keep, <<"v">>, PH(P(<<"n">>)), PH(P(<<"t">>)), PH(P(<<"z">>)), PH(P(<<"r">>)),
      PH(P(<<"o">>)), PH(P(<<"u">>)), PH(P(<<"x">>)), PH(<<"/", "r", "/", "0">>),
      PH(P(<<"n">>)) \o PH(P(<<"t">>)) }

RECURSIVE IsPlain(_)
IsPlain(node) ==
    IF is_string(node) THEN node.s \in PlainStrings
    ELSE IF is_object(node) THEN \A i \in 1..Len(node.o) : IsPlain(node.o[i].v)
    ELSE IF is_array(node) THEN \A i \in 1..Len(node.a) : IsPlain(node.a[i])
    ELSE TRUE

\* what the Remove policy is to make of a template: unresolved exact-match
\* entries left out, every other entry kept in order with its processed value
RECURSIVE RemoveExpected(_, _)
RECURSIVE KeptMembers(_, _, _)
RECURSIVE KeptItems(_, _, _)
RemoveExpected(node, context) ==
    IF is_object(node) THEN Obj(KeptMembers(node.o, 1, context))
    ELSE IF is_array(node) THEN Arr(KeptItems(node.a, 1, context))
    ELSE IF is_string(node) /\ IsExactMatchString(node.s)
    THEN detail_lookup(context, ExactPath(node.s)).v
    ELSE node
KeptMembers(o, i, context) ==
    IF i > Len(o) THEN <<>>
    ELSE (IF Unresolved(o[i].v, context) THEN <<>>
          ELSE <<Member(o[i].k, RemoveExpected(o[i].v, context))>>)
         \o KeptMembers(o, i + 1, context)
KeptItems(a, i, context) ==
    IF i > Len(a) THEN <<>>
    ELSE (IF Unresolved(a[i], context) THEN <<>>
          ELSE <<RemoveExpected(a[i], context)>>)
         \o KeptItems(a, i + 1, context)

\* C6: under the Remove policy apply leaves out every object member and array
\* element whose template value is an exact-match placeholder that does not
\* resolve, and keeps every other entry, in order, with its processed value.
C6_RemoveOmitsUnresolvedOnly ==
    (/\ Returned
     /\ call.options.missing_key_behavior = "Remove"
     /\ is_object(call.template) \/ is_array(call.template)
     /\ IsPlain(call.template))
    => outcome.v = RemoveExpected(call.template, call.context)

\* {"a": s, "b": "keep"}
PairTemplate(s) == Obj(<<Member(<<"a">>, Str(s)), Member(<<"b">>, Str(Keep))>>)

\* apply of api.cpp with the Remove policy and default markers over {}
RemoveCallOverEmpty ==
    /\ Returned
    /\ call.fn = "api_apply"
    /\ call.options.missing_key_behavior = "Remove"
    /\ call.options.start_marker = DefaultStart
    /\ call.options.end_marker = DefaultEnd
    /\ call.context = EmptyContext

IsPointerPlaceholder(s) == IsExactMatchString(s) /\ ExactPath(s)[1] = "/"

\* the call's configuration is one apply is to refuse: an empty start marker,
\* an empty end marker, identical markers, or the Remove policy with a
\* root-level exact-match placeholder
InvalidConfiguration ==
    \/ call.options.start_marker = <<>>
    \/ call.options.end_marker = <<>>
    \/ call.options.start_marker = call.options.end_marker
    \/ /\ call.options.missing_key_behavior = "Remove"
       /\ call.options.start_marker = DefaultStart
       /\ call.options.end_marker = DefaultEnd
       /\ is_string(call.template)
       /\ IsPointerPlaceholder(call.template.s)

\* apply refused the call without processing anything
RefusedAtOnce ==
    /\ pc = "done"
    /\ outcome = [kind |-> "Configuration"]
    /\ stack = <<>>
    /\ ret = NoRet

\* C8: every Configuration error of apply (empty start marker, empty end
\* marker, identical markers, Remove with a root-level exact-match
\* placeholder) is raised before any template node is processed: such a call
\* is never running, and it ends with Configuration, never with MissingKey,
\* Cycle, RecursionLimit or a value.
C8_ConfigurationErrorsEager ==
    (pc \in {"running", "done"} /\ InvalidConfiguration) => RefusedAtOnce

C8_Witness ==
    /\ RefusedAtOnce
    /\ call.fn = "api_apply"
    /\ call.options = Options(DefaultStart, DefaultEnd, FALSE, "Remove", MaxRecursionDepth)
    /\ call.template = Str(PH(P(<<"x">>)))

\* C9: options validation rejects a max_recursion_depth below 1 with a
\* Configuration error; apply never starts a traversal with
\* max_recursion_depth = 0.
C9_DepthBelowOneRejected ==
    (pc \in {"running", "done"} /\ call.options.max_recursion_depth < 1) => RefusedAtOnce

ConfigurationErrors == {"std::invalid_argument", "std::logic_error"}

\* create_reverse_template has handed its caller a reverse template or an
\* exception
ReverseBuilt == reverse.kind # "none"

\* C11: create_reverse_template fails with a Configuration error for every
\* template whenever enable_interpolation is true, and produces no reverse
\* template in that case.
C11_InterpolationRefusesReverse ==
    (ReverseBuilt /\ reverse.input.options.enable_interpolation)
    => reverse.kind \in ConfigurationErrors

C11_Witness ==
    /\ ReverseBuilt
    /\ reverse.fn = "create_reverse_template"
    /\ reverse.input.options = Options(DefaultStart, DefaultEnd, TRUE, "Ignore",
                                       MaxRecursionDepth)
    /\ reverse.input.template = DeepPaths
    /\ reverse.kind = "std::logic_error"

\* the strings of a template
RECURSIVE StringsOf(_)
StringsOf(node) ==
    IF is_string(node) THEN {node.s}
    ELSE IF is_object(node) THEN UNION {StringsOf(node.o[i].v) : i \in 1..Len(node.o)}
    ELSE IF is_array(node) THEN UNION {StringsOf(node.a[i]) : i \in 1..Len(node.a)}
    ELSE {}

\* the segments of a pointer without escapes
Segments(path) == IF path = <<>> THEN <<>> ELSE split_tokens(Tail(path), <<>>)

\* the context paths a template references, as sequences of segments
ReferencedPaths(template) ==
    {Segments(ExactPath(s)) : s \in {t \in StringsOf(template) : IsPointerPlaceholder(t)}}

\* no string of the value holds a start marker
MarkerFree(v) == \A s \in StringsOf(v) : find(s, DefaultStart, 0) = npos

\* the context provides the path, through object members, and the value there
\* has no placeholder of its own
RECURSIVE Provides(_, _)
Provides(v, segments) ==
    IF segments = <<>> THEN MarkerFree(v)
    ELSE /\ is_object(v)
         /\ has_key(v, segments[1])
         /\ Provides(get_key(v, segments[1]), Tail(segments))

\* the context restricted to the given paths
RECURSIVE Restricted(_, _)
RECURSIVE RestrictedMembers(_, _)
Restricted(v, paths) ==
    IF <<>> \in paths \/ ~is_object(v) THEN v ELSE Obj(RestrictedMembers(v.o, paths))
RestrictedMembers(o, paths) ==
    IF o = <<>> THEN <<>>
    ELSE LET below == {Tail(p) : p \in {q \in paths : q # <<>> /\ q[1] = o[1].k}}
         IN (IF below = {} THEN <<>> ELSE <<Member(o[1].k, Restricted(o[1].v, below))>>)
            \o RestrictedMembers(Tail(o), paths)

\* apply returned for a template of exact-match pointer placeholders and
\* literals, with default markers and interpolation off, over a context that
\* provides every referenced path, and create_reverse_template was called
RoundTripCase ==
    /\ Returned
    /\ ReverseBuilt
    /\ call.options.start_marker = DefaultStart
    /\ call.options.end_marker = DefaultEnd
    /\ ~call.options.enable_interpolation
    /\ \A s \in StringsOf(call.template) : IsPointerPlaceholder(s) \/ s = Keep
    /\ \A p \in ReferencedPaths(call.template) : Provides(call.context, p)

\* C12: round trip: for a template containing only exact-match placeholders
\* (interpolation off) and a context that provides every referenced path,
\* apply_reverse(create_reverse_template(template), apply(template, context))
\* equals the context restricted to the paths the template references.
C12_RoundTrip ==
    RoundTripCase =>
        /\ reverse.kind = "value"
        /\ reconstructed.kind # "none" =>
               /\ reconstructed.kind = "value"
               /\ reconstructed.v = Restricted(call.context,
                                               ReferencedPaths(call.template))

\* permuto.cpp's create_reverse_template was called with default markers and
\* interpolation off
ReverseBuiltFrom(template) ==
    /\ ReverseBuilt
    /\ reverse.fn = "create_reverse_template"
    /\ reverse.input.template = template
    /\ reverse.input.options.start_marker = DefaultStart
    /\ reverse.input.options.end_marker = DefaultEnd
    /\ ~reverse.input.options.enable_interpolation

\* {"v1": "${/a}", "v2": "${/a/b}"}
PrefixThenDeeper ==
    Obj(<<Member(<<"v", "1">>, Str(PH(<<"/", "a">>))),
          Member(<<"v", "2">>, Str(PH(<<"/", "a", "/", "b">>)))>>)

\* C13: when create_reverse_template processes an exact-match placeholder
\* for context path P after one for a proper prefix of P ("${/a}" then
\* "${/a/b}"), it succeeds and the string leaf at the prefix is replaced by an
\* object holding the deeper mapping: {"a": {"b": "/v2"}}.
C13_DeeperMappingReplacesLeaf ==
    ReverseBuiltFrom(PrefixThenDeeper) =>
        /\ reverse.kind = "value"
        /\ reverse.v = Obj(<<Member(<<"a">>,
                                    Obj(<<Member(<<"b">>, Str(<<"/", "v", "2">>))>>))>>)

\* C14: when two exact-match placeholders at different template locations
\* name the same context path (["${/k}", "${/k}"]), create_reverse_template
\* succeeds and the leaf for that context path holds the result pointer of the
\* later placeholder: {"k": "/1"}.
C14_LaterLeafWins ==
    \A key \in {<<"n">>, <<"u">>, <<"x">>} :
        ReverseBuiltFrom(Arr(<<Str(PH(P(key))), Str(PH(P(key)))>>)) =>
            /\ reverse.kind = "value"
            /\ reverse.v = Obj(<<Member(key, Str(<<"/", "1">>))>>)

\* apply_reverse has handed its caller a context or an exception
Reconstructed == reconstructed.kind # "none"

\* the exception type that stands for a Malformed error
MalformedErrors == {"std::runtime_error"}

\* the string leaves of a reverse template
RECURSIVE LeavesOf(_)
LeavesOf(node) ==
    IF is_string(node) THEN {node.s}
    ELSE IF is_object(node) THEN UNION {LeavesOf(node.o[i].v) : i \in 1..Len(node.o)}
    ELSE {}

\* the reverse template is an object and one of its string leaves is a
\* pointer that does not exist in the result document
PointerMissing ==
    /\ is_object(reconstructed.input.reverse_template)
    /\ \E s \in LeavesOf(reconstructed.input.reverse_template) :
           /\ nl_pointer_ok(s)
           /\ ~detail_lookup(reconstructed.input.result_json, s).found

\* C15: apply_reverse fails with a Malformed/NotFound error and returns no
\* partial context whenever some string leaf of the reverse template is a
\* pointer that does not exist in the result document.
C15_MissingPointerFails ==
    (Reconstructed /\ PointerMissing) => reconstructed.kind \in MalformedErrors

\* C16: apply_reverse accepts a reverse template only if its root is an object
\* (or empty): a non-empty array root or a scalar string root makes it fail
\* with a Malformed error (std::runtime_error), and an empty object root yields
\* the empty context {}.
C16_RootMustBeObject ==
    Reconstructed =>
        LET root == reconstructed.input.reverse_template IN
        /\ ((is_array(root) /\ root.a # <<>>) \/ is_string(root))
               => reconstructed.kind \in MalformedErrors
        /\ root = Obj(<<>>)
               => (reconstructed.kind = "value" /\ reconstructed.v = Obj(<<>>))

\* C17: under the Ignore policy, for every exact-match placeholder whose path
\* does not resolve, apply outputs a string equal character for character to
\* the original placeholder text, with interpolation on or off (as the whole
\* template and as the value of an object member).
C17_IgnoreKeepsPlaceholderText ==
    (/\ Returned
     /\ call.options.missing_key_behavior = "Ignore"
     /\ call.options.start_marker = DefaultStart
     /\ call.options.end_marker = DefaultEnd)
    => \A s \in TemplateStrings :
           Unresolved(Str(s), call.context) =>
               /\ call.template = Str(s) => outcome.v = Str(s)
               /\ call.template = Wrapped(Str(s)) => outcome.v = Wrapped(Str(s))

C17_Witness ==
    /\ Returned
    /\ call.fn = "api_apply"
    /\ call.options = Options(DefaultStart, DefaultEnd, TRUE, "Ignore", MaxRecursionDepth)
    /\ call.template = Wrapped(Str(PH(P(<<"x">>))))
    /\ call.context = Context(1)
    /\ outcome.v = Wrapped(Str(PH(P(<<"x">>))))

\* apply was called with valid default-marker options and has ended
EndedWithDefaults ==
    /\ Ended
    /\ call.options.start_marker = DefaultStart
    /\ call.options.end_marker = DefaultEnd

\* C18: with enable_interpolation false, apply returns every string that is
\* not an exact-match placeholder unchanged, and placeholders embedded in such
\* a string never cause MissingKey (even under the Error policy) or Cycle
\* (even when the context contains a cycle).
C18_LiteralWithoutInterpolation ==
    (EndedWithDefaults /\ ~call.options.enable_interpolation)
    => \A s \in {t \in TemplateStrings : ~IsExactMatchString(t)} :
           call.template \in {Str(s), Wrapped(Str(s))} =>
               /\ outcome.kind \notin {"MissingKey", "Cycle"}
               /\ outcome.kind = "value" => outcome.v = call.template

\* "${/n}${/t}"
Adjacent == PH(P(<<"n">>)) \o PH(P(<<"t">>))

\* C19: a string is an exact-match placeholder only if its path region holds
\* no further marker: "${/n}${/t}" is not an exact match, so apply leaves it
\* unchanged with interpolation off and, with interpolation on over a context
\* with /n = 7 and /t = true, substitutes each placeholder separately ("7true");
\* it never raises MissingKey for the path "/n}${/t".
C19_AdjacentPlaceholdersNotExact ==
    (/\ EndedWithDefaults
     /\ call.template \in {Str(Adjacent), Wrapped(Str(Adjacent))}
     /\ call.context # EmptyContext)
    => /\ outcome.kind # "MissingKey"
       /\ outcome.kind = "value" =>
              outcome.v = IF ~call.options.enable_interpolation THEN call.template
                          ELSE IF call.template = Str(Adjacent)
                          THEN Str(<<"7", "t", "r", "u", "e">>)
                          ELSE Wrapped(Str(<<"7", "t", "r", "u", "e">>))

\* C20: a placeholder whose extracted path is empty ("${}") is literal text:
\* apply returns it unchanged as a string, as the whole template and as the
\* value of an object member, and never resolves it to the context root.
C20_EmptyPlaceholderLiteral ==
    (/\ EndedWithDefaults
     /\ call.template \in {Str(PH(<<>>)), Wrapped(Str(PH(<<>>)))})
    => /\ outcome.kind # "MissingKey"
       /\ outcome.kind = "value" => outcome.v = call.template

\* C21: a placeholder whose extracted path is non-empty and does not start
\* with "/" ("${n}", where the context has a member n) is never resolved
\* against the context: apply hands the text back (or, under Remove, leaves
\* the member out) and create_reverse_template records no mapping for it.
C21_NonPointerPathNeverResolved ==
    /\ (EndedWithDefaults /\ call.template \in DotTemplates /\ outcome.kind = "value")
           => outcome.v \in {call.template, Obj(<<>>)}
    /\ (/\ ReverseBuilt
        /\ reverse.input.template \in DotTemplates
        /\ reverse.input.options.start_marker = DefaultStart
        /\ reverse.input.options.end_marker = DefaultEnd
        /\ reverse.kind = "value")
           => reverse.v = Obj(<<>>)

\* a segment is a decimal array index
IsDecimal(segment) ==
    segment # <<>> /\ \A i \in 1..Len(segment) : segment[i] \in
        {"0", "1", "2", "3", "4", "5", "6", "7", "8", "9"}

\* the number a decimal segment of one digit denotes
DecimalValue(segment) == CHOOSE n \in 0..9 : DigitChars[n + 1] = segment[1]

\* walking the segments from v meets a missing object key, an array index
\* that is out of range or not a decimal number, or a value that is not a
\* container
RECURSIVE FailsToResolve(_, _)
FailsToResolve(v, segments) ==
    IF segments = <<>> THEN FALSE
    ELSE IF is_object(v)
    THEN \/ ~has_key(v, segments[1])
         \/ FailsToResolve(get_key(v, segments[1]), Tail(segments))
    ELSE IF is_array(v)
    THEN \/ ~IsDecimal(segments[1])
         \/ Len(segments[1]) > 1
         \/ DecimalValue(segments[1]) >= Len(v.a)
         \/ FailsToResolve(v.a[DecimalValue(segments[1]) + 1], Tail(segments))
    ELSE TRUE

\* C22: path resolution returns NotFound, never a value, whenever a path
\* segment names a missing object key, an array index that is out of range or
\* is not a decimal number ("x", "1x"), or a step into a non-container value.
C22_FailedStepIsNotFound ==
    (pc = "resolved" /\ FailsToResolve(call.context, Segments(call.path)))
    => ~call.found

\* what a call of the two threads gives when it runs with no other call in
\* progress: the kind of its outcome and, for a value, the document
AloneOutcome(c) ==
    LET Al == Str(<<"A", "l">>)
        missing == c.options.missing_key_behavior
        Value(v) == [kind |-> "value", v |-> v]
        Failure(kind) == [kind |-> kind, v |-> Null]
    IN CASE c.template = Str(PH(P(<<"u">>))) ->
                IF missing = "Remove" THEN Failure("Configuration") ELSE Value(Al)
         [] c.template = Wrapped(Str(PH(P(<<"u">>)))) -> Value(Wrapped(Al))
         [] c.template = Wrapped(Str(PH(P(<<"x">>)))) ->
                IF missing = "Ignore" THEN Value(c.template)
                ELSE IF missing = "Error" THEN Failure("MissingKey")
                ELSE Value(Obj(<<>>))
         [] c.template = Str(<<"H", "i", " ">> \o PH(P(<<"u">>))) ->
                IF missing = "Remove" THEN Value(c.template)
                ELSE Value(Str(<<"H", "i", " ", "A", "l">>))
         [] c.template = Nested ->
                IF c.options.max_recursion_depth < 4 THEN Failure("RecursionLimit")
                ELSE Value(Obj(<<Member(<<"a">>, Obj(<<Member(<<"b">>,
                                 Arr(<<Al, Num(4)>>))>>))>>))

\* the kind of an outcome and, for a value, the document
Observed(o) == [kind |-> o.kind, v |-> IF o.kind = "value" THEN o.v ELSE Null]

\* the thread holding registers t has returned from its call with the outcome
\* the call gives alone
SameAsAlone(t) == t.pc = "done" => Observed(t.outcome) = AloneOutcome(t.call)

\* C23: whatever the interleaving of two threads calling apply, with the same
\* options or different ones, each call's outcome is the outcome of that call
\* run alone
C23_ThreadsDoNotInterfere ==
    /\ SameAsAlone(Registers(pc, call, stack, ret, active_paths, ctx, outcome))
    /\ SameAsAlone(other)

\* both threads are inside the same call, made with the same options: one is
\* in the middle of resolving /u, the other has entered process_value
C23_Witness ==
    /\ pc = "running" /\ other.pc = "running"
    /\ call = other.call
    /\ ctx.current_depth > 0
    /\ P(<<"u">>) \in other.ctx.path_set
    /\ ctx.path_set = {}

\* the frames of the call stack that are inside a placeholder resolution: an
\* ActivePathGuard that inserted its path is alive, or push_path was called
\* and pop_path not yet
Resolving(f) ==
    \/ f.fn = "resolve_and_process_placeholder" /\ f.added_
    \/ f.fn = "resolve_path" /\ f.pushed
ResolvingFrames == {i \in DOMAIN stack : Resolving(stack[i])}
PathsInProgress == {stack[i].path : i \in ResolvingFrames}
\* the active-path set of the engine the call runs in
ActiveSet == IF call.fn = "apply" THEN active_paths ELSE ctx.path_set

\* C24: while apply runs the active-path set holds exactly the paths of the
\* resolutions in progress on the call stack, one frame per path, and it is
\* empty when apply has returned or failed
C24_ActiveSetIsCallStack ==
    /\ pc = "running" =>
          /\ ActiveSet = PathsInProgress
          /\ Cardinality(ResolvingFrames) = Cardinality(PathsInProgress)
    /\ pc = "done" => ActiveSet = {} /\ PathsInProgress = {}

\* apply has failed with Cycle after resolutions that were nested two deep,
\* and nothing is left in the active-path set
C24_Witness ==
    /\ pc = "done" /\ call.fn = "apply" /\ outcome.kind = "Cycle"
    /\ call.template = Str(PH(P(<<"a">>)))
    /\ active_paths = {}

\* a resolution is about to enter the cycle detector with a path that is in
\* the active set
EnteringWithActivePath ==
    /\ pc = "running" /\ stack # <<>>
    /\ \/ /\ Top.fn = "resolve_and_process_placeholder" /\ ret.k = "none"
          /\ Top.path \in active_paths
       \/ /\ Top.fn = "resolve_path" /\ ~Top.pushed
          /\ Top.path \in ctx.path_set
RaisesCycleUnchanged ==
    /\ ret'.k = "exc" /\ ret'.e.type = "Cycle"
    /\ active_paths' = active_paths
    /\ ctx'.path_set = ctx.path_set

\* C25: a resolution that enters the cycle detector with a path of the active
\* set raises Cycle and leaves the set as it was, and no resolution ever puts
\* the empty path in the active set
C25_CycleOnActivePathAndNoEmptyPath ==
    /\ [][EnteringWithActivePath => RaisesCycleUnchanged]_vars
    /\ [](<<>> \notin active_paths /\ <<>> \notin ctx.path_set)

\* the paths that occur in a stack
Occurring(path_stack) == {path_stack[i] : i \in DOMAIN path_stack}

\* would_create_cycle answers true exactly for the paths in the stack
DetectorConsistent ==
    \A p \in DetectorPaths :
        would_create_cycle(ctx, p) <=> p \in Occurring(get_current_path(ctx))

\* pop_path has taken the last path off the stack before it, or found the
\* detector empty and left it as it was
PoppedLastOnly ==
    LET before == get_current_path(call'.before)
    IN IF before = <<>> THEN ctx' = call'.before
       ELSE get_current_path(ctx') = SubSeq(before, 1, Len(before) - 1)

\* C26: after any sequence of push_path, pop_path and clear calls,
\* would_create_cycle(p) is true exactly when p is in the stack that
\* get_current_path returns; pop_path removes only the most recently pushed
\* path and does nothing on an empty detector
C26_DetectorSetMatchesStack ==
    /\ []DetectorConsistent
    /\ [][call'.fn = "pop_path" => PoppedLastOnly]_vars

\* the templates that reference one context path from two places, none inside
\* the resolution of the other: sibling array elements, sibling object
\* members, two occurrences in one interpolated string
SiblingReferences ==
    {Arr(<<Str(s), Str(s)>>) : s \in {PH(P(<<"n">>)), PH(P(<<"u">>)), PH(P(<<"x">>))}}
    \cup {Obj(<<Member(<<"a">>, Str(PH(P(<<"x">>)))), Member(<<"b">>, Str(PH(P(<<"x">>))))>>)}
    \cup RepeatTemplates

\* a Cycle exception is created in this step
CycleRaised == ret.k # "exc" /\ ret'.k = "exc" /\ ret'.e.type = "Cycle"

\* C27: apply never fails with Cycle on a template that references the same
\* context path from sibling array elements, sibling object members or several
\* places of one interpolated string; a Cycle is raised only by a resolution
\* that enters with a path whose own resolution is still in progress
C27_SiblingReferencesAreNoCycle ==
    /\ []((pc = "done" /\ call.template \in SiblingReferences) => outcome.kind # "Cycle")
    /\ [][CycleRaised => EnteringWithActivePath]_vars

\* permuto.cpp's apply has substituted both occurrences of /f, each through
\* the chain /f -> "${/u}", in "=${/f}${/f}"
C27_Witness ==
    /\ pc = "done" /\ call.fn = "apply"
    /\ call.template = Str(<<"=">> \o PH(P(<<"f">>)) \o PH(P(<<"f">>)))
    /\ outcome.kind = "value"
    /\ outcome.v = Str(<<"=", "A", "l", "A", "l">>)

\* C28: every call of apply terminates: once started it returns a value or
\* fails, whatever the template, the context (those with /a -> "${/b}",
\* /b -> "${/a}" and /s -> "${/s}" included) and the options
C28_ApplyTerminates == (pc = "running") ~> (pc = "done")

\* a call over a context whose strings reference each other has ended in a
\* Cycle error
C28_Witness ==
    /\ pc = "done" /\ outcome.kind = "Cycle"
    /\ call.context \in CyclicContexts
    /\ call.template = Str(PH(P(<<"a">>)))
    /\ call.options.max_recursion_depth = MaxRecursionDepth

\* the process_value calls on the call stack that have passed enter_recursion
EnteredCalls == {i \in DOMAIN stack : stack[i].fn = "process_value" /\ stack[i].called}

\* the ProcessingContext of a thread that has not called process yet
FreshContext == ProcessingContext(<<>>, {}, INITIAL_RECURSION_DEPTH)

\* C30: while TemplateProcessor::process runs, the thread-local depth is the
\* number of process_value calls on the call stack and at most
\* max_recursion_depth; when process has returned or thrown the depth is 0
\* and the cycle detector empty, so the next call on the thread starts from
\* the state a first call starts from
C30_DepthCountsCalls ==
    /\ (pc = "running" /\ call.fn = "api_apply") =>
          /\ ctx.current_depth = Cardinality(EnteredCalls)
          /\ ctx.current_depth <= call.options.max_recursion_depth
    /\ pc # "running" => ctx = FreshContext

\* process has thrown RecursionLimit from the third level of a nested
\* template and the depth is 0 again
C30_Witness ==
    /\ pc = "done" /\ call.fn = "api_apply"
    /\ outcome.kind = "RecursionLimit"
    /\ call.template = Nested
    /\ call.options.max_recursion_depth = 3
    /\ ctx = FreshContext

\* a reference token of a JSON Pointer decoded: "~1" is "/" and "~0" is "~"
RECURSIVE Decoded(_)
Decoded(token) ==
    IF token = <<>> THEN <<>>
    ELSE IF Len(token) > 1 /\ token[1] = "~" /\ token[2] = "1"
    THEN <<"/">> \o Decoded(SubSeq(token, 3, Len(token)))
    ELSE IF Len(token) > 1 /\ token[1] = "~" /\ token[2] = "0"
    THEN <<"~">> \o Decoded(SubSeq(token, 3, Len(token)))
    ELSE <<token[1]>> \o Decoded(Tail(token))

\* the decoded reference tokens of a JSON Pointer
PointerTokens(pointer) ==
    IF pointer = <<>> THEN <<>>
    ELSE LET tokens == split_tokens(Tail(pointer), <<>>)
         IN [i \in 1..Len(tokens) |-> Decoded(tokens[i])]

\* the value a JSON Pointer with these tokens addresses in a document
RECURSIVE Addressed(_, _)
Addressed(v, tokens) ==
    IF tokens = <<>> THEN [found |-> TRUE, v |-> v]
    ELSE IF is_object(v) /\ has_key(v, tokens[1])
    THEN Addressed(get_key(v, tokens[1]), Tail(tokens))
    ELSE IF /\ is_array(v) /\ IsDecimal(tokens[1]) /\ Len(tokens[1]) = 1
            /\ DecimalValue(tokens[1]) < Len(v.a)
    THEN Addressed(v.a[DecimalValue(tokens[1]) + 1], Tail(tokens))
    ELSE [found |-> FALSE, v |-> Null]

\* the mappings of permuto.cpp's reverse template: the segments that lead to
\* a string leaf are the context path, the leaf is the result pointer
RECURSIVE NestedMappings(_, _)
NestedMappings(node, segments) ==
    IF is_string(node) THEN {[segments |-> segments, pointer |-> node.s]}
    ELSE IF is_object(node)
    THEN UNION {NestedMappings(node.o[i].v, Append(segments, node.o[i].k)) :
                    i \in 1..Len(node.o)}
    ELSE {}

\* the mappings of api.cpp's reverse template: each member's key is the result
\* pointer and its value the context path
FlatMappings(node) ==
    {[segments |-> Segments(node.o[i].v.s), pointer |-> node.o[i].k] :
         i \in {j \in 1..Len(node.o) :
                    node.o[j].v.s = <<>> \/ node.o[j].v.s[1] = "/"}}

\* the mappings create_reverse_template recorded
RecordedMappings ==
    IF reverse.fn = "create_reverse_template" THEN NestedMappings(reverse.v, <<>>)
    ELSE FlatMappings(reverse.v)

\* the value of the context at a path it provides
RECURSIVE ValueAt(_, _)
ValueAt(v, segments) ==
    IF segments = <<>> THEN v ELSE ValueAt(get_key(v, segments[1]), Tail(segments))

\* apply has returned a document and create_reverse_template a reverse
\* template for the same template, default markers, interpolation off
MappingsRecorded ==
    /\ Returned
    /\ ReverseBuilt /\ reverse.kind = "value"
    /\ call.options.start_marker = DefaultStart
    /\ call.options.end_marker = DefaultEnd
    /\ ~call.options.enable_interpolation

\* C29: each result pointer that create_reverse_template records for an
\* exact-match placeholder addresses, in the document apply returns for the
\* same template, the value apply put there for that placeholder, also when
\* object keys of the template hold "/" or "~" ("~0" and "~1" included) and
\* when an array element before it was dropped under Remove
C29_ResultPointersAddressOutput ==
    MappingsRecorded =>
        \A m \in RecordedMappings :
            Provides(call.context, m.segments) =>
                LET a == Addressed(outcome.v, PointerTokens(m.pointer))
                IN a.found /\ a.v = ValueAt(call.context, m.segments)

====
